---------------------------- MODULE Spec2Model ----------------------------
(***************************************************************************)
(* A model of the persona_eval sampling / scoring / metrics pipeline.      *)
(*                                                                         *)
(* Texts (completions, judge replies, answers) are sequences of one-       *)
(* character strings, so that the regular expressions and the str methods  *)
(* of the Python source are computed character by character.  Identifiers  *)
(* (dataset names, question ids, model ids, condition ids, file paths) are *)
(* TLA+ strings; file paths are built by concatenation as the f-strings    *)
(* of runners.py build them.                                               *)
(***************************************************************************)
EXTENDS Integers, Sequences, FiniteSets, TLC

(***************************************************************************)
(* Characters and the str methods used by the source                       *)
(***************************************************************************)
LowerSeq == <<"a","b","c","d","e","f","g","h","i","j","k","l","m",
              "n","o","p","q","r","s","t","u","v","w","x","y","z">>

UpperSeq == <<"A","B","C","D","E","F","G","H","I","J","K","L","M",
              "N","O","P","Q","R","S","T","U","V","W","X","Y","Z">>

LowerChars == {LowerSeq[i] : i \in 1..Len(LowerSeq)}

UpperChars == {UpperSeq[i] : i \in 1..Len(UpperSeq)}

DigitChars == {"0","1","2","3","4","5","6","7","8","9"}

\* \s of the re module and the characters str.strip() / str.split() remove
SpaceChars == {" ", "\t", "\n", "\r"}

\* the line boundaries of str.splitlines() that occur in the texts of this
\* model (Python also breaks lines at \r and at a few control characters)
LineBreaks == {"\n"}

PunctChars == {".", "!", "?", ":", "-", "(", ")", "'", ",", "\""}

\* \w of the re module
WordChars == LowerChars \cup UpperChars \cup DigitChars \cup {"_"}

Alphabet == WordChars \cup SpaceChars \cup PunctChars

\* "." of the re module: any character but a newline
AnyChar == Alphabet \ {"\n"}

\* the answer letters [A-J]
LettersAJ == {"A","B","C","D","E","F","G","H","I","J"}

\* a threshold that is not capped by the samples of the question
Uncapped(a, b) == a

\* the larger of the two in place of the smaller
Larger(a, b) == IF a >= b THEN a ELSE b

Min2(a, b) == IF a <= b THEN a ELSE b

Max2(a, b) == IF a >= b THEN a ELSE b

SetMax(S) == CHOOSE x \in S : \A y \in S : y <= x

SetMin(S) == CHOOSE x \in S : \A y \in S : x <= y

\* str.upper() on one character
UpperChar(c) ==
    IF c \in LowerChars
    THEN UpperSeq[CHOOSE i \in 1..Len(LowerSeq) : LowerSeq[i] = c]
    ELSE c

\* str.lower() on one character
LowerChar(c) ==
    IF c \in UpperChars
    THEN LowerSeq[CHOOSE i \in 1..Len(UpperSeq) : UpperSeq[i] = c]
    ELSE c

StrUpper(s) == [i \in 1..Len(s) |-> UpperChar(s[i])]

StrLower(s) == [i \in 1..Len(s) |-> LowerChar(s[i])]

\* str.strip(): leading and trailing whitespace removed
Strip(s) ==
    LET keep == {i \in 1..Len(s) : s[i] \notin SpaceChars}
    IN  IF keep = {} THEN <<>> ELSE SubSeq(s, SetMin(keep), SetMax(keep))

\* str.splitlines(): the lines between line boundaries; a trailing boundary
\* opens no further line, and the empty string has no line at all
SplitLines(s) ==
    LET brk   == {i \in 1..Len(s) : s[i] \in LineBreaks}
        \* line starts: position 1 and every position after a boundary that
        \* is still inside the string
        start == {1} \cup {i + 1 : i \in {b \in brk : b < Len(s)}}
        lineAt(a) == LET nb == {b \in brk : b >= a}
                         e  == IF nb = {} THEN Len(s) ELSE SetMin(nb) - 1
                     IN  SubSeq(s, a, e)
        RECURSIVE build(_)
        build(S) == IF S = {} THEN <<>>
                    ELSE LET a == SetMin(S) IN <<lineAt(a)>> \o build(S \ {a})
    IN  IF Len(s) = 0 THEN <<>> ELSE build(start)

\* the characters per word, in place of the number of words
MeanWordLength(s) ==
    LET starts == {i \in 1..Len(s) :
                      /\ s[i] \notin SpaceChars
                      /\ (i = 1 \/ s[i - 1] \in SpaceChars)}
    IN  IF starts = {} THEN 0 ELSE Len(s) \div Cardinality(starts)

\* len(str.split()): the number of maximal runs of non-whitespace characters
WordCount(s) ==
    Cardinality({i \in 1..Len(s) :
                    /\ s[i] \notin SpaceChars
                    /\ (i = 1 \/ s[i - 1] \in SpaceChars)})

\* Python's "kw in text"
Contains(s, kw) ==
    \E i \in 1..(Len(s) - Len(kw) + 1) : SubSeq(s, i, i + Len(kw) - 1) = kw

\* "\n".join(lines)
RECURSIVE JoinLines(_)
JoinLines(lines) ==
    IF Len(lines) = 0 THEN <<>>
    ELSE IF Len(lines) = 1 THEN lines[1]
    ELSE lines[1] \o <<"\n">> \o JoinLines(Tail(lines))

\* the whole list, whatever n is
Whole(seq, n) == seq

\* seq[-n:] if len(seq) >= n else seq  (the last up-to-n elements)
LastN(seq, n) ==
    IF Len(seq) >= n THEN SubSeq(seq, Len(seq) - n + 1, Len(seq)) ELSE seq

\* reversed(seq)
Reverse(seq) == [i \in 1..Len(seq) |-> seq[Len(seq) + 1 - i]]

(***************************************************************************)
(* The fragment of the re module the source uses: a pattern is a sequence  *)
(* of items, each a quantified character class (possibly the capture       *)
(* group), a word boundary \b or the anchor $.  Matching is greedy with    *)
(* backtracking, re.search takes the leftmost match.                       *)
(***************************************************************************)
One(S)  == [k |-> "cls", set |-> S, q |-> "1", cap |-> FALSE]

Opt(S)  == [k |-> "cls", set |-> S, q |-> "?", cap |-> FALSE]

Star(S) == [k |-> "cls", set |-> S, q |-> "*", cap |-> FALSE]

Plus(S) == [k |-> "cls", set |-> S, q |-> "+", cap |-> FALSE]

Group(item) == [item EXCEPT !.cap = TRUE]

WordB == [k |-> "b"]

EndAnchor == [k |-> "end"]

\* a literal: one single-character class per character
Lit(str) == [i \in 1..Len(str) |-> One({str[i]})]

\* a literal under re.IGNORECASE
LitIgnoreCase(str) == [i \in 1..Len(str) |-> One({LowerChar(str[i]), UpperChar(str[i])})]

IsWordAt(s, i) == i >= 1 /\ i <= Len(s) /\ s[i] \in WordChars

\* \b at position i (between s[i-1] and s[i])
AtWordBoundary(s, i) == IsWordAt(s, i - 1) # IsWordAt(s, i)

\* $ at position i: the end of the string, or just before a final newline
AtEnd(s, i) == i = Len(s) + 1 \/ (i = Len(s) /\ s[i] = "\n")

\* the length of the longest run of characters of S starting at s[i]
RunLen(s, i, S) ==
    LET stop == {j \in i..Len(s) : s[j] \notin S}
    IN  IF stop = {} THEN Max2(Len(s) - i + 1, 0) ELSE SetMin(stop) - i

NoMatch == [ok |-> FALSE, start |-> 0, end |-> 0, cap |-> <<>>]

RECURSIVE MatchFrom(_, _, _, _, _, _)
RECURSIVE TryCount(_, _, _, _, _, _, _, _)
\* item k of p takes n characters at s[i], then the rest of p must match;
\* on failure one character fewer is tried, down to lo (greedy backtracking)
TryCount(p, k, s, st, i, cap, n, lo) ==
    LET r == MatchFrom(p, k + 1, s, st, i + n,
                       IF p[k].cap THEN SubSeq(s, i, i + n - 1) ELSE cap)
    IN  IF r.ok THEN r
        ELSE IF n > lo THEN TryCount(p, k, s, st, i, cap, n - 1, lo)
        ELSE NoMatch

\* items k.. of p matched at s[i]; st is where the match began
MatchFrom(p, k, s, st, i, cap) ==
    IF k > Len(p) THEN [ok |-> TRUE, start |-> st, end |-> i, cap |-> cap]
    ELSE IF p[k].k = "b"
    THEN IF AtWordBoundary(s, i) THEN MatchFrom(p, k + 1, s, st, i, cap) ELSE NoMatch
    ELSE IF p[k].k = "end"
    THEN IF AtEnd(s, i) THEN MatchFrom(p, k + 1, s, st, i, cap) ELSE NoMatch
    ELSE IF p[k].q = "1"
    THEN IF i <= Len(s) /\ s[i] \in p[k].set
         THEN MatchFrom(p, k + 1, s, st, i + 1, IF p[k].cap THEN <<s[i]>> ELSE cap)
         ELSE NoMatch
    ELSE LET run == RunLen(s, i, p[k].set)
             lo  == IF p[k].q = "+" THEN 1 ELSE 0
             hi  == IF p[k].q = "?" THEN Min2(1, run) ELSE run
         IN  IF hi < lo THEN NoMatch ELSE TryCount(p, k, s, st, i, cap, hi, lo)

RECURSIVE SearchFrom(_, _, _)
SearchFrom(p, s, i) ==
    LET r == MatchFrom(p, 1, s, i, i, <<>>)
    IN  IF r.ok THEN r
        ELSE IF i <= Len(s) THEN SearchFrom(p, s, i + 1)
        ELSE NoMatch

\* re.search(p, s): the match at the leftmost position that has one
Search(p, s) == SearchFrom(p, s, 1)

\* a substitution that removes nothing
SubNothing(p, s) == s

\* re.sub(p, '', s) for a pattern anchored at the end: the one match is removed
SubEmpty(p, s) ==
    LET m == Search(p, s)
    IN  IF m.ok THEN SubSeq(s, 1, m.start - 1) \o SubSeq(s, m.end, Len(s)) ELSE s


(***************************************************************************)
(* sampling.py: the answer parsers                                         *)
(***************************************************************************)
S_he_correct_answer_is == <<"h","e"," ","c","o","r","r","e","c","t"," ","a","n","s","w","e","r"," ","i","s">>

S_orrect_answer == <<"o","r","r","e","c","t"," ","a","n","s","w","e","r">>

S_nswer == <<"n","s","w","e","r">>

S_inal_answer == <<"i","n","a","l"," ","a","n","s","w","e","r">>

S_inal_ == <<"i","n","a","l"," ">>

S_final == <<"f","i","n","a","l">>

\* \s*[:\-]?\s*\(?([A-J])\)?\b   (sampling.py:34, 36, 37)
ShortTail == <<Star(SpaceChars), Opt({":", "-"}), Star(SpaceChars),
               Opt({"("}), Group(One(LettersAJ)), Opt({")"}), WordB>>

\* \s*[:\-]\s*\(?([A-J])\)?\b   (sampling.py:68, 73)
FinalTail == <<Star(SpaceChars), One({":", "-"}), Star(SpaceChars),
               Opt({"("}), Group(One(LettersAJ)), Opt({")"}), WordB>>

\* the four patterns of parse_answer_mcq_short_format, in list order
ShortPatterns ==
    << <<One({"T", "t"})>> \o Lit(S_he_correct_answer_is) \o ShortTail,
       <<One({"T", "t"})>> \o Lit(S_he_correct_answer_is) \o
           <<Star(SpaceChars), Opt({":", "-"}), Star(SpaceChars), Opt({"\""}),
             Opt({"("}), Group(One(LettersAJ)), Opt({")"}), Opt({"\""}), WordB>>,
       <<One({"C", "c"})>> \o Lit(S_orrect_answer) \o ShortTail,
       <<One({"A", "a"})>> \o Lit(S_nswer) \o ShortTail >>

\* [Ff]inal answer\s*[:\-]\s*\(?([A-J])\)?\b
FinalPrimary == <<One({"F", "f"})>> \o Lit(S_inal_answer) \o FinalTail

\* [Ff]inal [Aa]nswer\s*[:\-]\s*\(?([A-J])\)?\b
FinalAlternative ==
    <<One({"F", "f"})>> \o Lit(S_inal_) \o <<One({"A", "a"})>> \o Lit(S_nswer) \o FinalTail

\* \b([A-J])\b
StandaloneLetter == <<WordB, Group(One(LettersAJ)), WordB>>

\* [Ff]inal under re.IGNORECASE
FinalWordIgnoreCase == LitIgnoreCase(S_final)

\* [Ff]inal answer\s*[:\-]\s*(.+)
OpenFinal ==
    <<One({"F", "f"})>> \o Lit(S_inal_answer) \o
    <<Star(SpaceChars), One({":", "-"}), Star(SpaceChars), Group(Plus(AnyChar))>>

\* [.!?]+$
TrailingPunct == <<Plus({".", "!", "?"}), EndAnchor>>

\* [Ff]inal answer\s*[:\-]
SplitFinal == <<One({"F", "f"})>> \o Lit(S_inal_answer) \o <<Star(SpaceChars), One({":", "-"})>>

\* [Tt]he correct answer is
SplitShort == <<One({"T", "t"})>> \o Lit(S_he_correct_answer_is)

\* the first element of a sequence of lines (in the given order) in which p
\* is found: 0 when there is none
FirstLineWith(lines, p) ==
    LET hit == {i \in 1..Len(lines) : Search(p, lines[i]).ok}
    IN  IF hit = {} THEN 0 ELSE SetMin(hit)

\* a cascade that takes the pattern whose match starts first in the text
parse_answer_mcq_short_format_by_position(text) ==
    LET cleaned == Strip(text)
        hitPat  == {j \in 1..Len(ShortPatterns) : Search(ShortPatterns[j], cleaned).ok}
        first   == CHOOSE j \in hitPat : \A k \in hitPat :
                       \/ Search(ShortPatterns[j], cleaned).start
                              < Search(ShortPatterns[k], cleaned).start
                       \/ /\ Search(ShortPatterns[j], cleaned).start
                              = Search(ShortPatterns[k], cleaned).start
                          /\ j <= k
        lines   == SplitLines(cleaned)
        last_lines == Reverse(LastN(lines, 3))
        fb      == FirstLineWith(last_lines, StandaloneLetter)
    IN  IF hitPat # {}
        THEN StrUpper(Search(ShortPatterns[first], cleaned).cap)
        ELSE IF fb # 0
        THEN StrUpper(Search(StandaloneLetter, last_lines[fb]).cap)
        ELSE <<>>

parse_answer_mcq_short_format(text) ==
    LET cleaned == Strip(text)
        hitPat  == {j \in 1..Len(ShortPatterns) : Search(ShortPatterns[j], cleaned).ok}
        lines   == SplitLines(cleaned)
        last_lines == Reverse(LastN(lines, 3))
        fb      == FirstLineWith(last_lines, StandaloneLetter)
    IN  IF hitPat # {}
        THEN StrUpper(Search(ShortPatterns[SetMin(hitPat)], cleaned).cap)
        ELSE IF fb # 0
        THEN StrUpper(Search(StandaloneLetter, last_lines[fb]).cap)
        ELSE <<>>

parse_answer_mcq_final_answer(text) ==
    LET cleaned == Strip(text)
        m1      == Search(FinalPrimary, cleaned)
        m2      == Search(FinalAlternative, cleaned)
        lines   == SplitLines(cleaned)
        last5   == Reverse(LastN(lines, 5))
        \* the lines of the window that contain "final" and a standalone letter
        hit     == {i \in 1..Len(last5) :
                       /\ Search(FinalWordIgnoreCase, last5[i]).ok
                       /\ Search(StandaloneLetter, last5[i]).ok}
    IN  IF m1.ok THEN StrUpper(m1.cap)
        ELSE IF m2.ok THEN StrUpper(m2.cap)
        ELSE IF hit # {} THEN StrUpper(Search(StandaloneLetter, last5[SetMin(hit)]).cap)
        ELSE IF Len(lines) > 0 /\ Search(StandaloneLetter, lines[Len(lines)]).ok
        THEN StrUpper(Search(StandaloneLetter, lines[Len(lines)]).cap)
        ELSE <<>>

parse_answer_open_final_answer(text) ==
    LET cleaned == Strip(text)
        lines   == SplitLines(cleaned)
        first   == FirstLineWith(lines, OpenFinal)
        nonEmpty == {i \in 1..Len(lines) : Strip(lines[i]) # <<>>}
    IN  IF first # 0
        THEN Strip(SubEmpty(TrailingPunct, Strip(Search(OpenFinal, lines[first]).cap)))
        ELSE IF nonEmpty # {} THEN Strip(lines[SetMax(nonEmpty)])
        ELSE <<>>

\* the integer part of the average of word_count / 0.75 and char_count / 4,
\* neither of them cut to an integer first: (16 w + 3 c) / 24
approximate_token_count_of_average(text) ==
    IF Len(text) = 0 THEN 0
    ELSE Max2(1, (16 * WordCount(text) + 3 * Len(text)) \div 24)

\* a token estimate that is at least 1, the empty text included
approximate_token_count_at_least_one(text) ==
    LET word_count == WordCount(text)
        char_count == Len(text)
        word_based == IF word_count > 0 THEN (4 * word_count) \div 3 ELSE 0
        char_based == char_count \div 4
    IN  Max2(1, (word_based + char_based) \div 2)

\* int(word_count / 0.75) is the integer part of 4 * word_count / 3, and
\* int(char_count / 4) the integer part of char_count / 4
approximate_token_count(text) ==
    IF Len(text) = 0 THEN 0
    ELSE LET word_count == WordCount(text)
             char_count == Len(text)
             word_based == IF word_count > 0 THEN (4 * word_count) \div 3 ELSE 0
             char_based == char_count \div 4
         IN  Max2(1, (word_based + char_based) \div 2)

split_reasoning_and_final_answer(text) ==
    LET lines == SplitLines(Strip(text))
        i1    == FirstLineWith(lines, SplitFinal)
        i2    == FirstLineWith(lines, SplitShort)
        cut   == IF i1 # 0 THEN i1 ELSE i2
        final_line      == IF cut # 0 THEN lines[cut] ELSE <<>>
        reasoning_lines == IF cut # 0 THEN SubSeq(lines, 1, cut - 1) ELSE lines
    IN  [reasoning |-> Strip(JoinLines(reasoning_lines)), final_line |-> final_line]

(***************************************************************************)
(* scoring.py                                                              *)
(***************************************************************************)
\* Python's None for an optional text (a sequence that is no text) and for an
\* optional identifier
None == <<"None">>

NoneId == "None"

\* the truth value Python gives an optional text / identifier
Truthy(v) == v # None /\ v # <<>>

TruthyId(v) == v # NoneId /\ v # ""

REFUSAL_KEYWORDS ==
    << <<"i"," ","a","m"," ","n","o","t"," ","a","b","l","e"," ","t","o">>,
       <<"i"," ","c","a","n","n","o","t"," ","a","n","s","w","e","r">>,
       <<"i"," ","c","a","n","'","t"," ","a","n","s","w","e","r">>,
       <<"i","'","m"," ","n","o","t"," ","a","b","l","e"," ","t","o">>,
       <<"i"," ","a","m"," ","u","n","a","b","l","e"," ","t","o">>,
       <<"i","'","m"," ","u","n","a","b","l","e"," ","t","o">>,
       <<"a","s"," ","a"," ","l","a","n","g","u","a","g","e"," ","m","o","d","e","l">>,
       <<"a","s"," ","a","n"," ","a","i">>,
       <<"a","s"," ","a","n"," ","a","r","t","i","f","i","c","i","a","l"," ","i","n","t","e","l","l","i","g","e","n","c","e">>,
       <<"i"," ","d","o"," ","n","o","t"," ","h","a","v","e"," ","e","n","o","u","g","h"," ","i","n","f","o","r","m","a","t","i","o","n">>,
       <<"i"," ","d","o","n","'","t"," ","h","a","v","e"," ","e","n","o","u","g","h"," ","i","n","f","o","r","m","a","t","i","o","n">>,
       <<"i","'","m"," ","n","o","t"," ","a","n"," ","e","x","p","e","r","t">>,
       <<"i"," ","a","m"," ","n","o","t"," ","a","n"," ","e","x","p","e","r","t">>,
       <<"i"," ","d","o","n","'","t"," ","k","n","o","w">>,
       <<"i"," ","d","o"," ","n","o","t"," ","k","n","o","w">>,
       <<"i","'","m"," ","n","o","t"," ","s","u","r","e">>,
       <<"i"," ","a","m"," ","n","o","t"," ","s","u","r","e">>,
       <<"i"," ","c","a","n","n","o","t"," ","p","r","o","v","i","d","e">>,
       <<"i"," ","c","a","n","'","t"," ","p","r","o","v","i","d","e">>,
       <<"i","'","m"," ","n","o","t"," ","q","u","a","l","i","f","i","e","d">>,
       <<"i"," ","a","m"," ","n","o","t"," ","q","u","a","l","i","f","i","e","d">>,
       <<"b","e","y","o","n","d"," ","m","y"," ","c","a","p","a","b","i","l","i","t","i","e","s">>,
       <<"o","u","t","s","i","d","e"," ","m","y"," ","k","n","o","w","l","e","d","g","e">>,
       <<"i"," ","r","e","f","u","s","e"," ","t","o">>,
       <<"i"," ","w","i","l","l"," ","n","o","t"," ","a","n","s","w","e","r">>,
       <<"i"," ","w","o","n","'","t"," ","a","n","s","w","e","r">> >>

\* a search for the phrases in the response as it is spelled
detect_refusal_as_spelled(text) ==
    \E i \in 1..Len(REFUSAL_KEYWORDS) : Contains(text, REFUSAL_KEYWORDS[i])

detect_refusal(text) ==
    LET lower == StrLower(text)
    IN  \E i \in 1..Len(REFUSAL_KEYWORDS) : Contains(lower, REFUSAL_KEYWORDS[i])

S_correct == <<"c","o","r","r","e","c","t">>

S_incorrect == <<"i","n","c","o","r","r","e","c","t">>

\* a judge that is asked whether or not there is a gold text
judge_is_called_without_gold(question, predicted_answer_text) ==
    Strip(predicted_answer_text) # <<>>

\* judge_open_answer_correct up to the judge call: whether the judge capability
\* is invoked at all (scoring.py:133-139)
judge_is_called(question, predicted_answer_text) ==
    /\ question.correct_answer_text # None
    /\ Strip(predicted_answer_text) # <<>>

\* a reading of the reply that stops at the word "correct"
judge_verdict_on_correct_alone(response_text) ==
    Contains(StrLower(Strip(response_text)), S_correct)

\* judge_open_answer_correct after the judge call: the verdict read from the
\* judge's reply (scoring.py:153-165)
judge_verdict(response_text) ==
    LET cleaned == StrLower(Strip(response_text))
    IN  IF cleaned = S_correct THEN TRUE
        ELSE IF cleaned = S_incorrect THEN FALSE
        ELSE IF Contains(cleaned, S_correct) /\ ~Contains(cleaned, S_incorrect) THEN TRUE
        ELSE FALSE

\* a comparison of the letters as they are written
score_mcq_answer_case_sensitive(predicted_letter, correct_letter) ==
    IF ~Truthy(correct_letter) THEN FALSE
    ELSE IF ~Truthy(predicted_letter) THEN FALSE
    ELSE predicted_letter = correct_letter

score_mcq_answer(predicted_letter, correct_letter) ==
    IF ~Truthy(correct_letter) THEN FALSE
    ELSE IF ~Truthy(predicted_letter) THEN FALSE
    ELSE StrUpper(predicted_letter) = StrUpper(correct_letter)

\* a lookup that falls back on the first question when the key is absent
LookupIndexOrFirst(questions, dataset, question_id) ==
    LET hit == {i \in 1..Len(questions) :
                   questions[i].dataset = dataset /\ questions[i].id = question_id}
    IN  IF hit = {} THEN 1 ELSE SetMax(hit)

\* build_question_lookup: a later question with the same (dataset, id)
\* replaces an earlier one; 0 when the key is absent
LookupIndex(questions, dataset, question_id) ==
    LET hit == {i \in 1..Len(questions) :
                   questions[i].dataset = dataset /\ questions[i].id = question_id}
    IN  IF hit = {} THEN 0 ELSE SetMax(hit)

(***************************************************************************)
(* metrics.py                                                              *)
(***************************************************************************)
Range(f) == {f[i] : i \in DOMAIN f}

\* the distinct elements of a sequence in the order of their first
\* occurrence: the key order of a dict filled in that order
Dedup(s) ==
    LET first  == {i \in 1..Len(s) : \A j \in 1..(i - 1) : s[j] # s[i]}
        nth(k) == CHOOSE i \in first : Cardinality({j \in first : j <= i}) = k
    IN  [k \in 1..Cardinality(first) |-> s[nth(k)]]

RECURSIVE GCD(_, _)
GCD(a, b) == IF b = 0 THEN a ELSE GCD(b, a % b)

\* a quotient of integers that drops its remainder
FloorDivision(a, b) == <<a \div b, 1>>

\* the value of a / float(b), b > 0, as a fraction in lowest terms: two such
\* quotients are the same float exactly when they are the same fraction
Frac(a, b) == <<a \div GCD(a, b), b \div GCD(a, b)>>

FracLeq(f, g) == f[1] * g[2] <= g[1] * f[2]

RECURSIVE SumOver(_, _)
\* sum(f[i] for i in S)
SumOver(S, f) ==
    IF S = {} THEN 0
    ELSE LET i == CHOOSE j \in S : TRUE IN f[i] + SumOver(S \ {i}, f)

RECURSIVE ISqrtBetween(_, _, _)
ISqrtBetween(y, lo, hi) ==
    IF lo >= hi THEN lo
    ELSE LET mid == (lo + hi + 1) \div 2
         IN  IF mid * mid <= y THEN ISqrtBetween(y, mid, hi)
             ELSE ISqrtBetween(y, lo, mid - 1)

\* a spread that takes half of the radicand in place of its square root
HalfOf(y) == y \div 2

\* the integer part of math.sqrt(y)
ISqrt(y) == ISqrtBetween(y, 0, 46340)

\* z = 1.96 = 49/25 (metrics.py:39-40), so z*z = 2401/625
\*
\* compute_confidence_interval on accuracy = acc[1]/acc[2] and n_samples, in
\* thousandths rounded down.  With c = accuracy * n_samples (an integer at the
\* one call site, metrics.py:173):
\*     center = (1250 c + 2401) / (1250 n + 4802)
\*     spread = 1225 sqrt(c (n - c) / n + 0.9604) / (625 n + 2401)
compute_confidence_interval(acc, n_samples) ==
    IF n_samples = 0 THEN [lower |-> 0, upper |-> 0]
    ELSE LET a   == Max2(0, Min2(acc[1], acc[2]))       \* clamp to [0, 1]
             c   == (a * n_samples) \div acc[2]
             den == 625 * n_samples + 2401
             ctr == 500 * (1250 * c + 2401)
             rad == 1225 * ISqrt(100 * ((10000 * c * (n_samples - c)) \div n_samples) + 960400)
         IN  [lower |-> Max2(0, (ctr - rad) \div den),
              upper |-> Min2(1000, (ctr + rad) \div den)]

GroupKey(r) == <<r.dataset, r.model_id, r.condition_id, r.question_id>>

AggregateKey(k) == <<k[1], k[2], k[3]>>

\* the thresholds of the robustness fractions (metrics.py:136, 138)
Threshold23 == 23

Threshold13 == 13

\* per-question statistics that take the samples of a question to be as its
\* first row is
GroupStatsFromFirstRow(scored_rows, key) ==
    LET rows == SelectSeq(scored_rows, LAMBDA r : GroupKey(r) = key)
    IN  [correct_count |-> IF rows[1].is_correct THEN Len(rows) ELSE 0,
         refusal_count |-> IF rows[1].is_refusal THEN Len(rows) ELSE 0,
         token_sum     |-> rows[1].reasoning_token_estimate * Len(rows),
         total_samples |-> Len(rows),
         subject       |-> rows[1].subject,
         difficulty    |-> rows[1].difficulty]

\* the per-question statistics of one group (metrics.py:103-114)
GroupStats(scored_rows, key) ==
    LET idx  == {i \in 1..Len(scored_rows) : GroupKey(scored_rows[i]) = key}
        rows == SelectSeq(scored_rows, LAMBDA r : GroupKey(r) = key)
    IN  [correct_count |-> Cardinality({i \in idx : scored_rows[i].is_correct}),
         refusal_count |-> Cardinality({i \in idx : scored_rows[i].is_refusal}),
         token_sum     |-> SumOver(idx, [i \in idx |-> scored_rows[i].reasoning_token_estimate]),
         total_samples |-> Len(rows),
         subject       |-> rows[1].subject,
         difficulty    |-> rows[1].difficulty]

\* one summary row from the statistics gs (indexed by ks) of the groups of
\* one (dataset, model, condition) triple (metrics.py:116-139, 144-205)
SummaryRow(agg, ks, gs) ==
    LET num_questions == Cardinality(ks)
        num_samples   == SumOver(ks, [k \in ks |-> gs[k].total_samples])
        num_correct   == SumOver(ks, [k \in ks |-> gs[k].correct_count])
        num_refusals  == SumOver(ks, [k \in ks |-> gs[k].refusal_count])
        sum_tokens    == SumOver(ks, [k \in ks |-> gs[k].token_sum])
        all_correct   == {k \in ks : gs[k].correct_count = gs[k].total_samples}
        ge_23         == {k \in ks : gs[k].correct_count >= Min2(Threshold23, gs[k].total_samples)}
        ge_13         == {k \in ks : gs[k].correct_count >= Min2(Threshold13, gs[k].total_samples)}
        mean_accuracy == Frac(num_correct, num_samples)
        ci            == compute_confidence_interval(mean_accuracy, num_samples)
        subjects      == {gs[k].subject : k \in {j \in ks : TruthyId(gs[j].subject)}}
        difficulties  == {gs[k].difficulty : k \in {j \in ks : TruthyId(gs[j].difficulty)}}
        withSubject(sb)    == {k \in ks : gs[k].subject = sb}
        withDifficulty(df) == {k \in ks : gs[k].difficulty = df}
        accOver(S) == Frac(SumOver(S, [k \in S |-> gs[k].correct_count]),
                           SumOver(S, [k \in S |-> gs[k].total_samples]))
    IN  [dataset |-> agg[1], model_id |-> agg[2], condition_id |-> agg[3],
         num_questions |-> num_questions,
         num_samples   |-> num_samples,
         mean_accuracy |-> mean_accuracy,
         accuracy_ci_lower |-> ci.lower,
         accuracy_ci_upper |-> ci.upper,
         mean_refusal_rate |-> Frac(num_refusals, num_samples),
         mean_reasoning_tokens |-> Frac(sum_tokens, num_samples),
         frac_questions_all_samples_correct |-> Frac(Cardinality(all_correct), num_questions),
         frac_questions_ge_23_correct |-> Frac(Cardinality(ge_23), num_questions),
         frac_questions_ge_13_correct |-> Frac(Cardinality(ge_13), num_questions),
         subject_accuracies    |-> [sb \in subjects |-> accOver(withSubject(sb))],
         difficulty_accuracies |-> [df \in difficulties |-> accOver(withDifficulty(df))]]

\* summary rows whose num_samples is the number of samples asked for, not
\* the number of records found
compute_metrics_of_expected_samples(scored_rows, num_samples_per_question) ==
    LET groups == Dedup([i \in 1..Len(scored_rows) |-> GroupKey(scored_rows[i])])
        aggs   == Dedup([i \in 1..Len(groups) |-> AggregateKey(groups[i])])
        gs     == [k \in Range(groups) |-> GroupStats(scored_rows, k)]
        ksOf(agg) == {k \in Range(groups) : AggregateKey(k) = agg}
    IN  [i \in 1..Len(aggs) |->
            [SummaryRow(aggs[i], ksOf(aggs[i]), gs) EXCEPT
                !.num_samples = Cardinality(ksOf(aggs[i])) * num_samples_per_question]]

\* compute_metrics: the summary rows in the key order of question_stats, which
\* is the order in which the triples first occur among the keys of groups,
\* which is the order in which they first occur in scored_rows
\* (a triple has a group and a group has a row, so the num_samples == 0
\* skip of metrics.py:149 is never taken; num_samples_per_question is not
\* read by the function)
compute_metrics(scored_rows, num_samples_per_question) ==
    LET groups == Dedup([i \in 1..Len(scored_rows) |-> GroupKey(scored_rows[i])])
        aggs   == Dedup([i \in 1..Len(groups) |-> AggregateKey(groups[i])])
        gs     == [k \in Range(groups) |-> GroupStats(scored_rows, k)]
        ksOf(agg) == {k \in Range(groups) : AggregateKey(k) = agg}
    IN  [i \in 1..Len(aggs) |-> SummaryRow(aggs[i], ksOf(aggs[i]), gs)]

(***************************************************************************)
(* metrics.py: compute_condition_comparison                                *)
(***************************************************************************)
\* float('inf'), written as a quotient with denominator 0
Infinity == <<1, 0>>

\* the float 0.0 and the float 1.0
Zero == <<0, 1>>

One1 == <<1, 1>>

Abs(a) == IF a < 0 THEN 0 - a ELSE a

\* a - b of two quotients, in lowest terms
FracMinus(f, g) ==
    LET num == f[1] * g[2] - g[1] * f[2]
        den == f[2] * g[2]
        d   == GCD(Abs(num), den)
    IN  <<num \div d, den \div d>>

\* a / b of two quotients, b > 0, in lowest terms
FracOver(f, g) == Frac(f[1] * g[2], f[2] * g[1])

DEFAULT_BASELINE == "baseline_mc"

\* baseline_metrics only ever holds rows of the model being compared
BaselineByModel(summary_rows, row, baseline_condition_id) ==
    LET hit == {i \in 1..Len(summary_rows) :
                    /\ summary_rows[i].condition_id = baseline_condition_id
                    /\ summary_rows[i].model_id = row.model_id}
    IN  IF hit = {} THEN 0 ELSE SetMax(hit)

\* baseline_metrics.get((row["dataset"], row["model_id"])): the position of
\* the last row of the baseline condition stored under the key, 0 for None
\* (metrics.py:225-234)
BaselineIndex(summary_rows, row, baseline_condition_id) ==
    LET hit == {i \in 1..Len(summary_rows) :
                    /\ summary_rows[i].condition_id = baseline_condition_id
                    /\ summary_rows[i].dataset = row.dataset
                    /\ summary_rows[i].model_id = row.model_id}
    IN  IF hit = {} THEN 0 ELSE SetMax(hit)

\* the comparison dict of one row; found is "if baseline:", which holds of
\* every row the dict returned (metrics.py:236-254)
ComparisonRow(row, found, baseline) ==
    LET comparison == [dataset |-> row.dataset, model_id |-> row.model_id,
                       condition_id |-> row.condition_id,
                       mean_accuracy |-> row.mean_accuracy]
    IN  IF found
        THEN comparison @@
             [delta_accuracy    |-> FracMinus(row.mean_accuracy, baseline.mean_accuracy),
              relative_accuracy |-> IF baseline.mean_accuracy[1] > 0
                                    THEN FracOver(row.mean_accuracy, baseline.mean_accuracy)
                                    ELSE Infinity,
              baseline_accuracy |-> baseline.mean_accuracy]
        ELSE comparison @@
             [delta_accuracy    |-> Zero,
              relative_accuracy |-> One1,
              baseline_accuracy |-> row.mean_accuracy]

\* metrics.py:210-258
compute_condition_comparison(summary_rows, baseline_condition_id) ==
    [k \in 1..Len(summary_rows) |->
        LET b == BaselineIndex(summary_rows, summary_rows[k], baseline_condition_id)
        IN  ComparisonRow(summary_rows[k], b # 0, summary_rows[IF b = 0 THEN k ELSE b])]

(***************************************************************************)
(* The state                                                               *)
(***************************************************************************)
VARIABLES
    \* run_full_experiment: its inputs
    exp_cfg,          \* models, conditions, sampling, judge (config.py)
    model_clients,    \* the model ids build_clients made a client for
    all_questions,    \* the loaded questions
    skip_sampling, skip_scoring, skip_existing,
    \* run_full_experiment: its position and locals
    run,              \* "first" or "rerun"
    pc,
    mi, ci,           \* the (model, condition) pair the phase loop is at
    qi, si,           \* the question and sample the sampling loop is at
    rows,             \* run_sampling_for_condition_and_model: rows
    raw_rows, ri,     \* score_raw_responses: its input and position in it
    scored_rows,      \* score_raw_responses: scored_rows
    all_scored_rows,  \* run_scoring_phase: all_scored_rows
    summary_rows,     \* run_metrics_phase: summary_rows
    files,            \* the output directory: path -> the rows of the file
    \* the provider behind every LLMClient: the texts it returns, in turn
    script, sp,
    clock,            \* time.time()
    \* what the run has done so far (observations)
    files_at_start,   \* the output directory when the run began
    pair_calls,       \* the generate calls made for the pair being sampled
    run_calls,        \* the sampling generate calls of the run
    judge_log,        \* the records the judge was called for in the run
    \* LLMClient.generate
    g_pc, g_provider, g_wellformed, g_retry_count, g_retry_delay,
    g_attempt, g_log, g_slept, g_result,
    \* compute_metrics applied to a list and to its permutations
    m_rows, m_first, m_last, m_count,
    \* one call of a function of the package: its position, its input, the
    \* condition it is made under and what it returned
    f_pc, f_input, f_condition, f_output

pipeline_vars ==
    <<exp_cfg, model_clients, all_questions, skip_sampling, skip_scoring, skip_existing,
      run, pc, mi, ci, qi, si, rows, raw_rows, ri, scored_rows, all_scored_rows,
      summary_rows, files, script, sp, clock, files_at_start, pair_calls, run_calls,
      judge_log>>

generate_vars ==
    <<g_pc, g_provider, g_wellformed, g_retry_count, g_retry_delay,
      g_attempt, g_log, g_slept, g_result>>

metrics_vars == <<m_rows, m_first, m_last, m_count>>

call_vars == <<f_pc, f_input, f_condition, f_output>>

vars == <<pipeline_vars, generate_vars, metrics_vars, call_vars>>

(***************************************************************************)
(* The inputs of the model                                                 *)
(***************************************************************************)
\* samples per question (sampling.num_samples_per_question)
MaxSamples == 2

\* the longest provider script
MaxScript == 2

T_empty == <<>>

T_final_B == <<"W","h","y"," ","n","o","t",".","\n","F","i","n","a","l"," ","a","n","s","w","e","r",":"," ","B">>

T_short_C == <<"T","h","e"," ","c","o","r","r","e","c","t"," ","a","n","s","w","e","r"," ","i","s"," ","(","C",")">>

T_dont_know == <<"I"," ","d","o","n","'","t"," ","k","n","o","w">>

\* what a provider may return: nothing (a failed call), a long-format answer,
\* a short-format answer, a refusal
Completions == {T_empty, T_final_B, T_short_C, T_dont_know}

RECURSIVE SeqsUpTo(_, _)
\* the sequences over S of length 1..n
SeqsUpTo(S, n) ==
    IF n = 0 THEN {}
    ELSE LET shorter == SeqsUpTo(S, n - 1)
         IN  {<<e>> : e \in S} \cup shorter \cup
             {Append(t, e) : t \in {u \in shorter : Len(u) = n - 1}, e \in S}

Scripts == SeqsUpTo(Completions, MaxScript)

\* a multiple-choice question whose letter is given in lower case, an open
\* question with a gold text, and a question that cannot be scored (its
\* letter is the empty string, it has no gold text); ids are dataset-scoped
Q1 == [dataset |-> "gpqa", id |-> "1", correct_option_letter |-> <<"b">>,
       correct_answer_text |-> None, subject |-> "physics", difficulty |-> "hard"]

Q2 == [dataset |-> "gpqa", id |-> "2", correct_option_letter |-> None,
       correct_answer_text |-> <<"B">>, subject |-> NoneId, difficulty |-> "easy"]

Q3 == [dataset |-> "mmlu_pro", id |-> "1", correct_option_letter |-> <<>>,
       correct_answer_text |-> None, subject |-> "law", difficulty |-> NoneId]

QuestionLists == {<<Q1, Q2, Q3>>, <<Q3, Q1>>}

Condition(id, type, answer_format) ==
    [id |-> id, type |-> type, answer_format |-> answer_format]

\* ids without an underscore, and ids with one
ConfigPlain ==
    [models     |-> <<"m1", "m2">>,
     conditions |-> <<Condition("c1", "mcq", "the_correct_answer_is"),
                      Condition("c2", "open", "final_answer_text")>>]

ConfigUnderscore ==
    [models     |-> <<"llama", "llama_expert">>,
     conditions |-> <<Condition("expert_deep", "mcq", "final_answer_letter"),
                      Condition("deep", "open", "final_answer_text")>>]

\* the judge is the second model; it is enabled or not
Configs ==
    {[models |-> c.models, conditions |-> c.conditions,
      num_samples_per_question |-> MaxSamples,
      judge |-> [enabled |-> e, judge_model_id |-> c.models[2]]] :
        c \in {ConfigPlain, ConfigUnderscore}, e \in BOOLEAN}

\* build_clients: a client for every model, or none for the second one (its
\* API key is not set)
ClientSets(cfg) == {Range(cfg.models), {cfg.models[1]}}

(***************************************************************************)
(* utils/io_utils.py and the paths of runners.py                           *)
(***************************************************************************)
RawDir == "raw"

ScoredDir == "scored"

SummariesDir == "summaries"

\* os.path.join(dir, name)
PathJoin(dir, name) == dir \o "/" \o name

\* runners.py:107-110, 177-180
RawPath(model_id, condition_id) ==
    PathJoin(RawDir, "raw_" \o model_id \o "_" \o condition_id \o ".jsonl")

\* runners.py:202-205, 333-336
ScoredPath(model_id, condition_id) ==
    PathJoin(ScoredDir, "scored_" \o model_id \o "_" \o condition_id \o ".jsonl")

SummaryPath == PathJoin(SummariesDir, "summary_metrics.jsonl")

\* os.path.exists
Exists(fs, path) == path \in DOMAIN fs

\* write_jsonl: the file is created or truncated and holds one JSON object
\* per row.  The rows hold strings, integers, booleans and null only, which
\* json.dumps / json.loads return unchanged, so a file is kept as the
\* sequence of its objects
write_jsonl(fs, path, rws) ==
    [p \in DOMAIN fs \cup {path} |-> IF p = path THEN rws ELSE fs[p]]

read_jsonl(fs, path) == fs[path]

(***************************************************************************)
(* sampling.py: run_sampling_for_condition_and_model                       *)
(***************************************************************************)
\* a choice of parser by the answer format alone
ParseResponseByFormat(condition, response_text) ==
    IF condition.answer_format = "the_correct_answer_is"
    THEN LET predicted_letter == parse_answer_mcq_short_format(response_text)
         IN  [predicted_letter |-> predicted_letter, predicted_text |-> predicted_letter]
    ELSE IF condition.answer_format = "final_answer_letter"
    THEN LET predicted_letter == parse_answer_mcq_final_answer(response_text)
         IN  [predicted_letter |-> predicted_letter, predicted_text |-> predicted_letter]
    ELSE [predicted_letter |-> <<>>,
          predicted_text   |-> parse_answer_open_final_answer(response_text)]

\* a choice of parser that reads a letter under every condition type
ParseResponseWithLetter(condition, response_text) ==
    IF condition.type = "mcq"
    THEN LET predicted_letter ==
                 IF condition.answer_format = "the_correct_answer_is"
                 THEN parse_answer_mcq_short_format(response_text)
                 ELSE parse_answer_mcq_final_answer(response_text)
         IN  [predicted_letter |-> predicted_letter, predicted_text |-> predicted_letter]
    ELSE [predicted_letter |-> parse_answer_mcq_final_answer(response_text),
          predicted_text   |-> parse_answer_open_final_answer(response_text)]

\* the parser the condition selects, applied (sampling.py:230-239)
ParseResponse(condition, response_text) ==
    IF condition.type = "mcq"
    THEN LET predicted_letter ==
                 IF condition.answer_format = "the_correct_answer_is"
                 THEN parse_answer_mcq_short_format(response_text)
                 ELSE parse_answer_mcq_final_answer(response_text)
         IN  [predicted_letter |-> predicted_letter, predicted_text |-> predicted_letter]
    ELSE [predicted_letter |-> <<>>,
          predicted_text   |-> parse_answer_open_final_answer(response_text)]

\* the row of one sample (sampling.py:224-257); prompt_messages, which no
\* later stage reads, is left out
SampleRow(q, condition, model_id, sample_idx, response_text, now) ==
    LET reasoning_and_final == split_reasoning_and_final_answer(response_text)
        parsed              == ParseResponse(condition, response_text)
    IN  [dataset                  |-> q.dataset,
         question_id              |-> q.id,
         subject                  |-> q.subject,
         difficulty               |-> q.difficulty,
         condition_id             |-> condition.id,
         model_id                 |-> model_id,
         sample_idx               |-> sample_idx,
         raw_response             |-> response_text,
         parsed_reasoning         |-> reasoning_and_final.reasoning,
         final_line               |-> reasoning_and_final.final_line,
         predicted_option_letter  |-> parsed.predicted_letter,
         predicted_answer_text    |-> parsed.predicted_text,
         reasoning_token_estimate |-> approximate_token_count(reasoning_and_final.reasoning),
         timestamp                |-> now]

\* what identifies a generate call of the sampling loop
CallOf(q, condition, model_id, sample_idx) ==
    [dataset |-> q.dataset, question_id |-> q.id, condition_id |-> condition.id,
     model_id |-> model_id, sample_idx |-> sample_idx]

\* the composite key of a record
CompositeKey(r) ==
    [dataset |-> r.dataset, question_id |-> r.question_id, condition_id |-> r.condition_id,
     model_id |-> r.model_id, sample_idx |-> r.sample_idx]

(***************************************************************************)
(* scoring.py: score_raw_responses                                         *)
(***************************************************************************)
\* runners.py:160-163
JudgeClients(cfg, clients) ==
    IF cfg.judge.enabled /\ cfg.judge.judge_model_id \in clients
    THEN {cfg.judge.judge_model_id}
    ELSE {}

\* a judge that is called for the questions with a correct option letter too
JudgeCalledForAnyQuestion(row, questions, judge_config, judge_clients) ==
    LET k == LookupIndex(questions, row.dataset, row.question_id)
    IN  /\ k # 0
        /\ judge_config.enabled
        /\ judge_config.judge_model_id \in judge_clients
        /\ judge_is_called(questions[k], row.predicted_answer_text)

\* whether the loop body reaches judge_client.generate for this row
\* (scoring.py:236, 248, 256, 133-139)
JudgeCalledFor(row, questions, judge_config, judge_clients) ==
    LET k == LookupIndex(questions, row.dataset, row.question_id)
    IN  /\ k # 0
        /\ ~Truthy(questions[k].correct_option_letter)
        /\ judge_config.enabled
        /\ judge_config.judge_model_id \in judge_clients
        /\ judge_is_called(questions[k], row.predicted_answer_text)

\* is_correct of a row whose question was found; reply is what the judge
\* returned when it was called (scoring.py:246-263)
IsCorrect(row, question, judge_config, judge_clients, reply) ==
    IF Truthy(question.correct_option_letter)
    THEN score_mcq_answer(row.predicted_option_letter, question.correct_option_letter)
    ELSE IF judge_config.enabled /\ judge_config.judge_model_id \in judge_clients
    THEN IF judge_is_called(question, row.predicted_answer_text)
         THEN judge_verdict(reply)
         ELSE FALSE
    ELSE FALSE

\* the scored row (scoring.py:265-269)
ScoredRow(row, question, is_correct) ==
    [is_correct            |-> is_correct,
     is_refusal            |-> detect_refusal(row.raw_response),
     correct_option_letter |-> question.correct_option_letter,
     correct_answer_text   |-> question.correct_answer_text] @@ row

(***************************************************************************)
(* runners.py: run_full_experiment                                         *)
(***************************************************************************)
\* a sampling phase that does not look at skip_existing
SkipExistingIgnored(skip, fs, raw_path) == FALSE

\* runners.py:112
SkipExisting(skip, fs, raw_path) == skip /\ Exists(fs, raw_path)

\* the next text of the provider
NextText == script[sp]

AdvanceScript == sp' = (sp % Len(script)) + 1

CurModel == exp_cfg.models[mi]

CurCondition == exp_cfg.conditions[ci]

NumSamples == exp_cfg.num_samples_per_question

\* runners.py:277-315: directories, questions and clients are ready; the
\* sampling phase is entered or skipped
StartRun ==
    /\ pc = "start"
    /\ pc' = IF skip_sampling THEN "phase2" ELSE "sampling"
    /\ mi' = 1 /\ ci' = 1
    /\ files_at_start' = files
    /\ run_calls' = <<>> /\ judge_log' = <<>> /\ pair_calls' = <<>>
    /\ all_scored_rows' = <<>> /\ summary_rows' = <<>>
    /\ UNCHANGED <<exp_cfg, model_clients, all_questions, skip_sampling, skip_scoring,
                   skip_existing, run, qi, si, rows, raw_rows, ri, scored_rows, files,
                   script, sp, clock, generate_vars, metrics_vars, call_vars>>

\* run_sampling_phase, one turn of its loops (runners.py:99-116): a model
\* without a client is passed over, a pair whose raw file exists is skipped
\* under skip_existing, any other pair is sampled
SamplingLoop ==
    /\ pc = "sampling"
    /\ IF mi > Len(exp_cfg.models)
       THEN /\ pc' = "phase2"
            /\ UNCHANGED <<mi, ci, qi, si, rows, pair_calls>>
       ELSE IF CurModel \notin model_clients \/ ci > Len(exp_cfg.conditions)
       THEN /\ mi' = mi + 1 /\ ci' = 1
            /\ UNCHANGED <<pc, qi, si, rows, pair_calls>>
       ELSE IF SkipExisting(skip_existing, files, RawPath(CurModel, CurCondition.id))
       THEN /\ ci' = ci + 1
            /\ UNCHANGED <<pc, mi, qi, si, rows, pair_calls>>
       ELSE /\ pc' = "sample_pair"
            /\ rows' = <<>> /\ qi' = 1 /\ si' = 0 /\ pair_calls' = <<>>
            /\ UNCHANGED <<mi, ci>>
    /\ UNCHANGED <<exp_cfg, model_clients, all_questions, skip_sampling, skip_scoring,
                   skip_existing, run, raw_rows, ri, scored_rows, all_scored_rows,
                   summary_rows, files, script, sp, clock, files_at_start, run_calls,
                   judge_log, generate_vars, metrics_vars, call_vars>>

\* one sample: client.generate and the row built from what it returned
\* (sampling.py:216-262)
SampleCall ==
    /\ pc = "sample_pair"
    /\ qi <= Len(all_questions) /\ si < NumSamples
    /\ LET q == all_questions[qi] IN
       /\ rows' = Append(rows, SampleRow(q, CurCondition, CurModel, si, NextText, clock))
       /\ pair_calls' = Append(pair_calls, CallOf(q, CurCondition, CurModel, si))
       /\ run_calls' = Append(run_calls, CallOf(q, CurCondition, CurModel, si))
    /\ AdvanceScript
    /\ clock' = clock + 1
    /\ IF si + 1 < NumSamples
       THEN si' = si + 1 /\ qi' = qi
       ELSE si' = 0 /\ qi' = qi + 1
    /\ UNCHANGED <<exp_cfg, model_clients, all_questions, skip_sampling, skip_scoring,
                   skip_existing, run, pc, mi, ci, raw_rows, ri, scored_rows,
                   all_scored_rows, summary_rows, files, script, files_at_start,
                   judge_log, generate_vars, metrics_vars, call_vars>>

\* the loops are over: write_jsonl(raw_output_path, rows) (sampling.py:264)
WriteRaw ==
    /\ pc = "sample_pair"
    /\ qi > Len(all_questions) \/ NumSamples = 0
    /\ files' = write_jsonl(files, RawPath(CurModel, CurCondition.id), rows)
    /\ pc' = "sampling"
    /\ ci' = ci + 1
    /\ UNCHANGED <<exp_cfg, model_clients, all_questions, skip_sampling, skip_scoring,
                   skip_existing, run, mi, qi, si, rows, raw_rows, ri, scored_rows,
                   all_scored_rows, summary_rows, script, sp, clock, files_at_start,
                   pair_calls, run_calls, judge_log, generate_vars, metrics_vars, call_vars>>

RECURSIVE LoadScored(_, _, _)
\* runners.py:331-339: the rows of the scored files that exist, pair by pair
LoadScored(fs, cfg, k) ==
    IF k > Len(cfg.models) * Len(cfg.conditions) THEN <<>>
    ELSE LET m    == cfg.models[((k - 1) \div Len(cfg.conditions)) + 1]
             c    == cfg.conditions[((k - 1) % Len(cfg.conditions)) + 1]
             path == ScoredPath(m, c.id)
         IN  (IF Exists(fs, path) THEN read_jsonl(fs, path) ELSE <<>>)
             \o LoadScored(fs, cfg, k + 1)

\* runners.py:317-339: the scoring phase is entered, or the scored files of an
\* earlier run are loaded
BeginScoring ==
    /\ pc = "phase2"
    /\ IF skip_scoring
       THEN /\ all_scored_rows' = LoadScored(files, exp_cfg, 1)
            /\ pc' = "phase3"
       ELSE /\ all_scored_rows' = <<>>
            /\ pc' = "scoring"
    /\ mi' = 1 /\ ci' = 1
    /\ UNCHANGED <<exp_cfg, model_clients, all_questions, skip_sampling, skip_scoring,
                   skip_existing, run, qi, si, rows, raw_rows, ri, scored_rows,
                   summary_rows, files, script, sp, clock, files_at_start, pair_calls,
                   run_calls, judge_log, generate_vars, metrics_vars, call_vars>>

\* run_scoring_phase, one turn of its loops (runners.py:175-188): a pair
\* without a raw file is passed over, the raw file of any other pair is read
ScoringLoop ==
    /\ pc = "scoring"
    /\ IF mi > Len(exp_cfg.models)
       THEN /\ pc' = "phase3"
            /\ UNCHANGED <<mi, ci, raw_rows, ri, scored_rows>>
       ELSE IF ci > Len(exp_cfg.conditions)
       THEN /\ mi' = mi + 1 /\ ci' = 1
            /\ UNCHANGED <<pc, raw_rows, ri, scored_rows>>
       ELSE IF ~Exists(files, RawPath(CurModel, CurCondition.id))
       THEN /\ ci' = ci + 1
            /\ UNCHANGED <<pc, mi, raw_rows, ri, scored_rows>>
       ELSE /\ pc' = "score_pair"
            /\ raw_rows' = read_jsonl(files, RawPath(CurModel, CurCondition.id))
            /\ ri' = 1 /\ scored_rows' = <<>>
            /\ UNCHANGED <<mi, ci>>
    /\ UNCHANGED <<exp_cfg, model_clients, all_questions, skip_sampling, skip_scoring,
                   skip_existing, run, qi, si, rows, all_scored_rows, summary_rows, files,
                   script, sp, clock, files_at_start, pair_calls, run_calls, judge_log,
                   generate_vars, metrics_vars, call_vars>>

\* score_raw_responses, one turn of its loop (scoring.py:232-273): a row whose
\* question is not found is skipped; the judge, when it is called, answers
\* with the provider's next text
ScoreRow ==
    /\ pc = "score_pair"
    /\ ri <= Len(raw_rows)
    /\ LET row    == raw_rows[ri]
           k      == LookupIndex(all_questions, row.dataset, row.question_id)
           jc     == JudgeClients(exp_cfg, model_clients)
           judged == JudgeCalledFor(row, all_questions, exp_cfg.judge, jc)
       IN  /\ scored_rows' =
                  IF k = 0 THEN scored_rows
                  ELSE Append(scored_rows,
                              ScoredRow(row, all_questions[k],
                                        IsCorrect(row, all_questions[k], exp_cfg.judge,
                                                  jc, NextText)))
           /\ IF judged
              THEN /\ AdvanceScript
                   /\ judge_log' = Append(judge_log, CompositeKey(row))
              ELSE UNCHANGED <<sp, judge_log>>
    /\ ri' = ri + 1
    /\ UNCHANGED <<exp_cfg, model_clients, all_questions, skip_sampling, skip_scoring,
                   skip_existing, run, pc, mi, ci, qi, si, rows, raw_rows,
                   all_scored_rows, summary_rows, files, script, clock, files_at_start,
                   pair_calls, run_calls, generate_vars, metrics_vars, call_vars>>

\* the rows of the pair are scored: the scored file is written and the rows
\* join all_scored_rows (runners.py:202-207)
WriteScored ==
    /\ pc = "score_pair"
    /\ ri > Len(raw_rows)
    /\ files' = write_jsonl(files, ScoredPath(CurModel, CurCondition.id), scored_rows)
    /\ all_scored_rows' = all_scored_rows \o scored_rows
    /\ pc' = "scoring"
    /\ ci' = ci + 1
    /\ UNCHANGED <<exp_cfg, model_clients, all_questions, skip_sampling, skip_scoring,
                   skip_existing, run, mi, qi, si, rows, raw_rows, ri, scored_rows,
                   summary_rows, script, sp, clock, files_at_start, pair_calls,
                   run_calls, judge_log, generate_vars, metrics_vars, call_vars>>

\* runners.py:341-351 and run_metrics_phase: the summary is computed and
\* written when there is a scored row (the text table, a rendering of the
\* same rows, is left out)
MetricsPhase ==
    /\ pc = "phase3"
    /\ IF all_scored_rows # <<>>
       THEN /\ summary_rows' = compute_metrics(all_scored_rows, NumSamples)
            /\ files' = write_jsonl(files, SummaryPath, summary_rows')
       ELSE UNCHANGED <<summary_rows, files>>
    /\ pc' = "done"
    /\ UNCHANGED <<exp_cfg, model_clients, all_questions, skip_sampling, skip_scoring,
                   skip_existing, run, mi, ci, qi, si, rows, raw_rows, ri, scored_rows,
                   all_scored_rows, script, sp, clock, files_at_start, pair_calls,
                   run_calls, judge_log, generate_vars, metrics_vars, call_vars>>

\* the program is run again on the same output directory, with the same
\* configuration, the flags of the command line chosen anew, the dataset
\* files and the API keys in the environment possibly changed in between
Rerun ==
    /\ pc = "done" /\ run = "first"
    /\ run' = "rerun"
    /\ pc' = "start"
    /\ skip_existing' \in BOOLEAN
    /\ skip_sampling' \in BOOLEAN
    /\ skip_scoring' \in BOOLEAN
    /\ all_questions' \in QuestionLists
    /\ model_clients' \in ClientSets(exp_cfg)
    /\ UNCHANGED <<exp_cfg, mi, ci, qi, si, rows, raw_rows, ri,
                   scored_rows, all_scored_rows, summary_rows, files, script, sp, clock,
                   files_at_start, pair_calls, run_calls, judge_log,
                   generate_vars, metrics_vars, call_vars>>

\* the pipeline as it stands when another machine of this module runs
PipelineIdle ==
    /\ exp_cfg = [models |-> <<>>, conditions |-> <<>>, num_samples_per_question |-> 0,
                  judge |-> [enabled |-> FALSE, judge_model_id |-> NoneId]]
    /\ model_clients = {} /\ all_questions = <<>>
    /\ skip_sampling = FALSE /\ skip_scoring = FALSE /\ skip_existing = FALSE
    /\ run = "first" /\ pc = "idle"
    /\ mi = 1 /\ ci = 1 /\ qi = 1 /\ si = 0 /\ ri = 1
    /\ rows = <<>> /\ raw_rows = <<>> /\ scored_rows = <<>>
    /\ all_scored_rows = <<>> /\ summary_rows = <<>>
    /\ files = <<>> /\ files_at_start = <<>>
    /\ script = <<T_empty>> /\ sp = 1 /\ clock = 0
    /\ pair_calls = <<>> /\ run_calls = <<>> /\ judge_log = <<>>

GenerateIdle ==
    /\ g_pc = "idle" /\ g_provider = "openai" /\ g_wellformed = TRUE
    /\ g_retry_count = 0 /\ g_retry_delay = 0 /\ g_attempt = 0
    /\ g_log = <<>> /\ g_slept = <<>> /\ g_result = <<>>

MetricsIdle ==
    /\ m_rows = <<>> /\ m_first = <<>> /\ m_last = <<>> /\ m_count = 0

CallIdle ==
    /\ f_pc = "idle" /\ f_input = <<>> /\ f_condition = NoneId /\ f_output = <<>>

\* a first, full run on an empty output directory
Init ==
    /\ exp_cfg \in Configs
    /\ model_clients \in ClientSets(exp_cfg)
    /\ all_questions \in QuestionLists
    /\ script \in Scripts
    /\ skip_sampling = FALSE /\ skip_scoring = FALSE /\ skip_existing = FALSE
    /\ run = "first" /\ pc = "start"
    /\ mi = 1 /\ ci = 1 /\ qi = 1 /\ si = 0 /\ ri = 1
    /\ rows = <<>> /\ raw_rows = <<>> /\ scored_rows = <<>>
    /\ all_scored_rows = <<>> /\ summary_rows = <<>>
    /\ files = <<>> /\ files_at_start = <<>>
    /\ sp = 1 /\ clock = 0
    /\ pair_calls = <<>> /\ run_calls = <<>> /\ judge_log = <<>>
    /\ GenerateIdle
    /\ MetricsIdle
    /\ CallIdle

Next ==
    \/ StartRun
    \/ SamplingLoop
    \/ SampleCall
    \/ WriteRaw
    \/ BeginScoring
    \/ ScoringLoop
    \/ ScoreRow
    \/ WriteScored
    \/ MetricsPhase
    \/ Rerun

Spec == Init /\ [][Next]_vars

(***************************************************************************)
(* model_api.py: LLMClient.generate and the provider clients behind it     *)
(***************************************************************************)
\* the most attempts a caller asks for
MaxRetry == 3

\* the largest retry_delay a caller asks for
MaxDelay == 2

Providers == {"openai", "anthropic", "openrouter"}

ApiError == [kind |-> "api_error"]

ApiText(t) == [kind |-> "text", text |-> t]

\* what the provider's API does with one call: it fails or it answers
ProviderOutcomes == {ApiError} \cup {ApiText(t) : t \in Completions}

\* the provider client raises before it reaches its try block: only
\* AnthropicClient.generate reads msg["role"] and msg["content"] outside of
\* it (model_api.py:99-106), a KeyError on a message without these keys
DelegateRaises(provider, wellformed) == provider = "anthropic" /\ ~wellformed

\* a provider client that hands the error message of a failed API call to
\* its caller as if it were the answer
DelegateReturnsErrorText(provider, outcome) ==
    IF outcome.kind = "text" THEN outcome.text ELSE T_dont_know

\* what the provider client returns: the text of the answer, or "" when the
\* API call raised (model_api.py:58-69, 108-125, 159-172)
DelegateReturn(provider, outcome) ==
    IF outcome.kind = "text" THEN outcome.text ELSE <<>>

RECURSIVE Pow2(_)
Pow2(k) == IF k = 0 THEN 1 ELSE 2 * Pow2(k - 1)

\* model_api.py:231
Backoff(retry_delay, attempt) == retry_delay * Pow2(attempt)

\* model_api.py:230: the handler sleeps unless the attempt was the last
SleepsAfter(attempt, retry_count) == attempt < retry_count - 1

\* generate is called: last_error = None, the loop is about to start
InitGenerate ==
    /\ g_provider \in Providers
    /\ g_wellformed \in BOOLEAN
    /\ g_retry_count \in 0..MaxRetry
    /\ g_retry_delay \in 1..MaxDelay
    /\ g_pc = "loop" /\ g_attempt = 0
    /\ g_log = <<>> /\ g_slept = <<>> /\ g_result = None
    /\ PipelineIdle
    /\ MetricsIdle
    /\ CallIdle

\* for attempt in range(retry_count), one more turn (model_api.py:221)
GenEnterAttempt ==
    /\ g_pc = "loop" /\ g_attempt < g_retry_count
    /\ g_pc' = "attempt"
    /\ UNCHANGED <<g_provider, g_wellformed, g_retry_count, g_retry_delay, g_attempt,
                   g_log, g_slept, g_result, pipeline_vars, metrics_vars, call_vars>>

\* self._client.generate returns and so does generate (model_api.py:223-227)
GenAttemptReturns ==
    /\ g_pc = "attempt" /\ ~DelegateRaises(g_provider, g_wellformed)
    /\ \E outcome \in ProviderOutcomes :
          /\ g_log' = Append(g_log, outcome)
          /\ g_result' = DelegateReturn(g_provider, outcome)
    /\ g_pc' = "done"
    /\ UNCHANGED <<g_provider, g_wellformed, g_retry_count, g_retry_delay, g_attempt,
                   g_slept, pipeline_vars, metrics_vars, call_vars>>

\* self._client.generate raises: the handler (model_api.py:228-233)
GenAttemptRaises ==
    /\ g_pc = "attempt" /\ DelegateRaises(g_provider, g_wellformed)
    /\ g_log' = Append(g_log, [kind |-> "raised"])
    /\ IF SleepsAfter(g_attempt, g_retry_count)
       THEN g_pc' = "sleep" /\ g_attempt' = g_attempt
       ELSE g_pc' = "loop" /\ g_attempt' = g_attempt + 1
    /\ UNCHANGED <<g_provider, g_wellformed, g_retry_count, g_retry_delay, g_slept,
                   g_result, pipeline_vars, metrics_vars, call_vars>>

\* time.sleep(delay) returns (model_api.py:231-233)
GenSleep ==
    /\ g_pc = "sleep"
    /\ g_slept' = Append(g_slept, Backoff(g_retry_delay, g_attempt))
    /\ g_attempt' = g_attempt + 1
    /\ g_pc' = "loop"
    /\ UNCHANGED <<g_provider, g_wellformed, g_retry_count, g_retry_delay, g_log,
                   g_result, pipeline_vars, metrics_vars, call_vars>>

\* the loop is over: return "" (model_api.py:235-236)
GenExhausted ==
    /\ g_pc = "loop" /\ g_attempt >= g_retry_count
    /\ g_result' = <<>>
    /\ g_pc' = "done"
    /\ UNCHANGED <<g_provider, g_wellformed, g_retry_count, g_retry_delay, g_attempt,
                   g_log, g_slept, pipeline_vars, metrics_vars, call_vars>>

NextGenerate ==
    \/ GenEnterAttempt
    \/ GenAttemptReturns
    \/ GenAttemptRaises
    \/ GenSleep
    \/ GenExhausted

\* a call that is running keeps running
SpecGenerate == InitGenerate /\ [][NextGenerate]_vars /\ WF_vars(NextGenerate)

(***************************************************************************)
(* metrics.py: compute_metrics on a list of scored rows and on its         *)
(* permutations                                                            *)
(***************************************************************************)
\* the longest list of scored rows
MaxRows == 3

\* the calls of compute_metrics that are followed
MaxCalls == 2

\* scored rows of two models and two questions; the rows of question "1"
\* disagree on its subject in some lists
MetricsRow(model_id, question_id, subject, is_correct) ==
    [dataset |-> "gpqa", model_id |-> model_id, condition_id |-> "c1",
     question_id |-> question_id, subject |-> subject, difficulty |-> "hard",
     is_correct |-> is_correct, is_refusal |-> ~is_correct,
     reasoning_token_estimate |-> IF is_correct THEN 3 ELSE 0]

MetricsPool ==
    {MetricsRow(m, "1", sb, c) : m \in {"m1", "m2"}, sb \in {"physics", "law"}, c \in BOOLEAN}
    \cup {MetricsRow(m, "2", "law", c) : m \in {"m1", "m2"}, c \in BOOLEAN}

\* the list with the rows at i and i + 1 exchanged
SwapAdjacent(s, i) ==
    [k \in 1..Len(s) |-> IF k = i THEN s[i + 1] ELSE IF k = i + 1 THEN s[i] ELSE s[k]]

InitMetrics ==
    /\ m_rows \in SeqsUpTo(MetricsPool, MaxRows)
    /\ m_first = <<>> /\ m_last = <<>> /\ m_count = 0
    /\ PipelineIdle
    /\ GenerateIdle
    /\ CallIdle

\* the caller reorders its list
PermuteRows ==
    /\ \E i \in 1..(Len(m_rows) - 1) : m_rows' = SwapAdjacent(m_rows, i)
    /\ UNCHANGED <<m_first, m_last, m_count, pipeline_vars, generate_vars, call_vars>>

\* compute_metrics(m_rows, num_samples_per_question); the result of the first
\* call is kept
ComputeMetrics ==
    /\ m_count < MaxCalls
    /\ m_last' = compute_metrics(m_rows, MaxSamples)
    /\ m_first' = IF m_count = 0 THEN compute_metrics(m_rows, MaxSamples) ELSE m_first
    /\ m_count' = m_count + 1
    /\ UNCHANGED <<m_rows, pipeline_vars, generate_vars, call_vars>>

NextMetrics ==
    \/ PermuteRows
    \/ ComputeMetrics

SpecMetrics == InitMetrics /\ [][NextMetrics]_vars

(***************************************************************************)
(* C1                                                                      *)
(***************************************************************************)
\* the rows of one question agree on its subject and its difficulty
ConsistentRows(rws) ==
    \A i, j \in 1..Len(rws) :
        GroupKey(rws[i]) = GroupKey(rws[j]) =>
            /\ rws[i].subject = rws[j].subject
            /\ rws[i].difficulty = rws[j].difficulty

\* the same summary rows, whatever their order in the list
SameRows(a, b) == Len(a) = Len(b) /\ Range(a) = Range(b)

\* C1, as the code has it: compute_metrics on a list and on a permutation of
\* it returns the same summary rows with the same value in every field,
\* provided the rows of one question agree on subject and difficulty; the
\* order of the summary rows in the returned list is not part of this
C1_SameRowsUnderPermutation ==
    (m_count = MaxCalls /\ ConsistentRows(m_rows)) => SameRows(m_first, m_last)

\* C1 as stated: the two results are identical
C1_IdenticalUnderPermutation ==
    m_count = MaxCalls => m_first = m_last

\* a permutation that changed the order of two summary rows and nothing else
C1_Witness ==
    /\ m_count = MaxCalls /\ ConsistentRows(m_rows)
    /\ Len(m_first) = 2
    /\ m_first # m_last
    /\ SameRows(m_first, m_last)

(***************************************************************************)
(* C2, C3                                                                  *)
(***************************************************************************)
\* the attempts whose API call answered
Succeeded(log) == {k \in 1..Len(log) : log[k].kind = "text"}

\* the text of the first attempt that succeeded, "" when none did
FirstSuccess(log) ==
    IF Succeeded(log) = {} THEN <<>> ELSE log[SetMin(Succeeded(log))].text

\* C2 as stated: a call whose provider failed with an API error returns only
\* after retry_count attempts were made, with retry_count - 1 waits in
\* between, the k-th of retry_delay * 2^k seconds
C2_RetriesTransientFailure ==
    (g_pc = "done" /\ g_log # <<>> /\ g_log[Len(g_log)] = ApiError) =>
        /\ Len(g_log) = g_retry_count
        /\ g_slept = [k \in 1..(g_retry_count - 1) |-> Backoff(g_retry_delay, k - 1)]

ExpectedCall(k) ==
    CallOf(all_questions[((k - 1) \div NumSamples) + 1], CurCondition, CurModel,
           (k - 1) % NumSamples)

EmptyCompletionRow(r) ==
    /\ r.predicted_option_letter = <<>>
    /\ r.predicted_answer_text = <<>>
    /\ r.parsed_reasoning = <<>>
    /\ r.final_line = <<>>
    /\ r.reasoning_token_estimate = 0

C4_LoopInvariant ==
    pc = "sample_pair" =>
        /\ Len(pair_calls) = (qi - 1) * NumSamples + si
        /\ Len(rows) = Len(pair_calls)
        /\ \A k \in 1..Len(rows) :
              /\ pair_calls[k] = ExpectedCall(k)
              /\ CompositeKey(rows[k]) = pair_calls[k]
              /\ rows[k].raw_response = <<>> => EmptyCompletionRow(rows[k])

C4_FileWritten ==
    WriteRaw =>
        /\ Len(rows) = Len(all_questions) * NumSamples
        /\ files'[RawPath(CurModel, CurCondition.id)] = rows

\* C4: whatever completions are empty, the sampling of a pair calls generate
\* for question after question, samples 0..n-1 of each, builds one row per
\* call, and writes len(questions) * n rows; the row of an empty completion
\* has an empty letter, text, reasoning and final line and 0 tokens
C4_SamplingCompletesOnEmptyCompletions ==
    []C4_LoopInvariant /\ [][C4_FileWritten]_vars

\* a pair sampled to its end, some of its completions empty and some not
C4_Witness ==
    /\ pc = "sample_pair" /\ qi > Len(all_questions)
    /\ \E k \in 1..Len(rows) : rows[k].raw_response = <<>>
    /\ \E k \in 1..Len(rows) : rows[k].raw_response # <<>>

(***************************************************************************)
(* C5                                                                      *)
(***************************************************************************)
QuestionPresent(questions, r) ==
    \E i \in 1..Len(questions) :
        questions[i].dataset = r.dataset /\ questions[i].id = r.question_id

TripleOf(r) == <<r.dataset, r.model_id, r.condition_id>>

\* the scored rows that a summary row counts
CountedBy(s) == {i \in 1..Len(all_scored_rows) : TripleOf(all_scored_rows[i]) = TripleOf(s)}

\* C5: the scored rows are the raw rows read so far whose question is
\* loaded, one for one and in their order; where scoring ran, every row
\* handed to the metrics has its question loaded, and a summary row counts
\* these rows and nothing else in its samples, correct answers and refusals
C5_OneScoredRowPerPresentRow ==
    /\ pc = "score_pair" =>
          LET present == SelectSeq(SubSeq(raw_rows, 1, ri - 1),
                                   LAMBDA r : QuestionPresent(all_questions, r))
          IN  /\ Len(scored_rows) = Len(present)
              /\ \A k \in 1..Len(present) :
                    \A f \in DOMAIN present[k] : scored_rows[k][f] = present[k][f]
    /\ (pc = "done" /\ ~skip_scoring) =>
          /\ \A i \in 1..Len(all_scored_rows) :
                QuestionPresent(all_questions, all_scored_rows[i])
          /\ \A k \in 1..Len(summary_rows) :
                LET s == summary_rows[k] IN
                /\ s.num_samples = Cardinality(CountedBy(s))
                /\ s.mean_accuracy =
                      Frac(Cardinality({i \in CountedBy(s) : all_scored_rows[i].is_correct}),
                           s.num_samples)
                /\ s.mean_refusal_rate =
                      Frac(Cardinality({i \in CountedBy(s) : all_scored_rows[i].is_refusal}),
                           s.num_samples)

RawPaths(cfg) ==
    {RawPath(cfg.models[i], cfg.conditions[j].id) :
        i \in 1..Len(cfg.models), j \in 1..Len(cfg.conditions)}

\* a run that scored raw files holding rows of a question no longer loaded,
\* and summarised what it scored
C5_Witness ==
    /\ pc = "done" /\ ~skip_scoring /\ summary_rows # <<>>
    /\ \E p \in RawPaths(exp_cfg) \cap DOMAIN files :
          \E k \in 1..Len(files[p]) : ~QuestionPresent(all_questions, files[p][k])

(***************************************************************************)
(* C6, C7                                                                  *)
(***************************************************************************)
\* C6 as stated: the raw file the scoring of a pair reads holds the rows of
\* that pair and of no other
C6_PairReadsItsOwnFile ==
    pc = "score_pair" =>
        \A k \in 1..Len(raw_rows) :
            /\ raw_rows[k].model_id = CurModel
            /\ raw_rows[k].condition_id = CurCondition.id

\* C7 as stated: after a run of the sampling phase and the scoring phase no
\* two rows handed to the metrics have the same composite key
C7_UniqueCompositeKeys ==
    (pc = "done" /\ ~skip_sampling /\ ~skip_scoring) =>
        \A i, j \in 1..Len(all_scored_rows) :
            CompositeKey(all_scored_rows[i]) = CompositeKey(all_scored_rows[j]) => i = j

(***************************************************************************)
(* C8                                                                      *)
(***************************************************************************)
\* C8: in a run with skip_existing, every raw file that was there when the
\* run began is as it was, and no generate call of the sampling phase is for
\* a pair whose raw file was there; a run with skip_existing that follows a
\* completed run makes no such call at all
C8_SkipExistingKeepsRawFiles ==
    (skip_existing /\ pc # "start") =>
        /\ \A p \in RawPaths(exp_cfg) \cap DOMAIN files_at_start :
              p \in DOMAIN files /\ files[p] = files_at_start[p]
        /\ \A k \in 1..Len(run_calls) :
              RawPath(run_calls[k].model_id, run_calls[k].condition_id)
                  \notin DOMAIN files_at_start
        /\ (\A p \in RawPaths(exp_cfg) : p \in DOMAIN files_at_start) => run_calls = <<>>

\* a run with skip_existing through its sampling phase: it found raw files,
\* left them alone and sampled the pairs that had none
C8_Witness ==
    /\ skip_existing /\ ~skip_sampling /\ pc = "done"
    /\ RawPaths(exp_cfg) \cap DOMAIN files_at_start # {}
    /\ run_calls # <<>>

(***************************************************************************)
(* C9, C10                                                                 *)
(***************************************************************************)
\* the scored rows there are: those of the pair being scored and those
\* gathered for the metrics
ScoredRowsSoFar == Range(scored_rows) \cup Range(all_scored_rows)

\* C9: a scored row of a question with a correct option letter is correct
\* exactly when its predicted letter is not empty and is the correct letter
\* in upper or lower case, and the judge was not called for it
C9_LetterMatchDecidesMcq ==
    \A r \in ScoredRowsSoFar :
        Truthy(r.correct_option_letter) =>
            /\ r.is_correct <=>
                  /\ r.predicted_option_letter # <<>>
                  /\ StrUpper(r.predicted_option_letter) = StrUpper(r.correct_option_letter)
            /\ CompositeKey(r) \notin Range(judge_log)

\* a correct row whose predicted letter differs from the correct letter in
\* case, and an incorrect row with no predicted letter, with a judge at hand
C9_Witness ==
    /\ exp_cfg.judge.enabled /\ exp_cfg.judge.judge_model_id \in model_clients
    /\ \E r \in Range(scored_rows) :
          /\ Truthy(r.correct_option_letter)
          /\ r.is_correct
          /\ r.predicted_option_letter # r.correct_option_letter
    /\ \E r \in Range(scored_rows) :
          /\ Truthy(r.correct_option_letter)
          /\ r.predicted_option_letter = <<>>
          /\ ~r.is_correct

\* C10: a scored row of a question without a correct option letter is
\* incorrect when judging is disabled, when the question has no gold text,
\* and when the predicted text is empty
C10_OpenIncorrectWithoutJudgement ==
    \A r \in ScoredRowsSoFar :
        (/\ ~Truthy(r.correct_option_letter)
         /\ \/ ~exp_cfg.judge.enabled
            \/ r.correct_answer_text = None
            \/ r.predicted_answer_text = <<>>) => ~r.is_correct

\* with a judge at hand that calls an answer correct: an open question without
\* a gold text and one with an empty predicted text, both incorrect, next to
\* an open question the judge has made correct
C10_Witness ==
    /\ exp_cfg.judge.enabled
    /\ \E r \in Range(scored_rows) :
          /\ ~Truthy(r.correct_option_letter) /\ r.correct_answer_text = None
          /\ r.predicted_answer_text # <<>> /\ ~r.is_correct
    /\ \E r \in Range(scored_rows) :
          /\ ~Truthy(r.correct_option_letter) /\ r.correct_answer_text # None
          /\ r.predicted_answer_text = <<>> /\ ~r.is_correct
    /\ \E r \in Range(scored_rows) :
          /\ ~Truthy(r.correct_option_letter) /\ r.is_correct

(***************************************************************************)
(* One call of a function of the package on an input drawn from a bounded  *)
(* set: the call is entered with its input and returns its output.         *)
(***************************************************************************)
\* the concatenation of a sequence of texts
RECURSIVE Concat(_)
Concat(parts) == IF Len(parts) = 0 THEN <<>> ELSE parts[1] \o Concat(Tail(parts))

(***************************************************************************)
(* scoring.py: judge_open_answer_correct, from the judge's reply on        *)
(***************************************************************************)
\* the longest reply of the judge, in pieces
MaxReplyParts == 3

\* the pieces a reply of the judge is made of
ReplyParts ==
    {<<"c","o","r","r","e","c","t">>,
     <<"C","o","r","r","e","c","t">>,
     <<"C","O","R","R","E","C","T">>,
     <<"i","n","c","o","r","r","e","c","t">>,
     <<"I","n","c","o","r","r","e","c","t">>,
     <<"i","n">>,
     <<"m","a","y","b","e">>,
     <<" ">>,
     <<"\n">>,
     <<","," ","w","e","l","l"," ","r","e","a","s","o","n","e","d",".">>,
     <<"n","o","t"," ">>}

\* what the judge client returns: "" after a failed call, or a reply
JudgeReplies == {T_empty} \cup {Concat(ps) : ps \in SeqsUpTo(ReplyParts, MaxReplyParts)}

InitJudge ==
    /\ f_pc = "call" /\ f_input \in JudgeReplies
    /\ f_condition = NoneId /\ f_output = <<>>
    /\ PipelineIdle /\ GenerateIdle /\ MetricsIdle

\* response_text = judge_client.generate(...) returned f_input; the function
\* returns its verdict (scoring.py:147-165)
JudgeReturns ==
    /\ f_pc = "call"
    /\ f_output' = judge_verdict(f_input)
    /\ f_pc' = "return"
    /\ UNCHANGED <<f_input, f_condition, pipeline_vars, generate_vars, metrics_vars>>

NextJudge == JudgeReturns

SpecJudge == InitJudge /\ [][NextJudge]_vars

(***************************************************************************)
(* C11                                                                     *)
(***************************************************************************)
\* the reply as the claim reads it: trimmed and lower-cased
TrimmedLower(reply) == StrLower(Strip(reply))

\* the word occurs somewhere in the text
Occurs(word, text) ==
    \E i \in 1..Len(text) :
        /\ i + Len(word) - 1 <= Len(text)
        /\ \A k \in 1..Len(word) : text[i + k - 1] = word[k]

\* C11: with r the judge's reply trimmed and lower-cased, r = "correct" gives
\* true, r = "incorrect" gives false, any other reply gives true exactly when
\* r contains "correct" and does not contain "incorrect"; so every other
\* reply, the empty string of a failed judge call included, gives false
C11_JudgeReplyDecides ==
    f_pc = "return" =>
        LET r == TrimmedLower(f_input)
        IN  /\ f_output \in BOOLEAN
            /\ r = S_correct => f_output = TRUE
            /\ r = S_incorrect => f_output = FALSE
            /\ r \notin {S_correct, S_incorrect} =>
                   (f_output = TRUE <=> (Occurs(S_correct, r) /\ ~Occurs(S_incorrect, r)))
            /\ f_input = T_empty => f_output = FALSE

\* a reply that is not the bare word, names "correct" and is taken as true
C11_Witness ==
    /\ f_pc = "return"
    /\ f_input = <<"C","o","r","r","e","c","t",","," ","w","e","l","l"," ","r","e","a","s","o","n","e","d",".">>
    /\ f_output = TRUE

(***************************************************************************)
(* metrics.py: compute_metrics on the scored rows of questions that were   *)
(* sampled up to MaxN times                                                *)
(***************************************************************************)
\* the most samples a question has
MaxN == 25

\* the i-th scored row of a question of which the first c samples are correct
CountRow(model_id, question_id, i, c) ==
    [dataset |-> "gpqa", model_id |-> model_id, condition_id |-> "c1",
     question_id |-> question_id, subject |-> "physics", difficulty |-> "hard",
     is_correct |-> i <= c, is_refusal |-> i % 3 = 0,
     reasoning_token_estimate |-> i % 5]

\* n scored rows of a question, c of them correct
CountRows(model_id, question_id, n, c) ==
    [i \in 1..n |-> CountRow(model_id, question_id, i, c)]

\* the rows that come with those of question "1": none, rows of a second
\* question of the triple, a row of another model, or the rows of a second
\* question that is all correct and of a third one that just reaches the
\* higher threshold
OtherRows ==
    {<<>>, CountRows("m1", "2", 1, 1), CountRows("m1", "2", 2, 1), CountRows("m2", "1", 1, 0),
     CountRows("m1", "2", 1, 1) \o CountRows("m1", "3", Threshold23 + 2, Threshold23)}

\* a question whose correct letter is B, sampled under final_answer_letter
QuestionB ==
    [dataset |-> "gpqa", id |-> "7", correct_option_letter |-> <<"B">>,
     correct_answer_text |-> None, subject |-> "physics", difficulty |-> "hard"]

ConditionFinalLetter == Condition("c1", "mcq", "final_answer_letter")

T_think_final_B == <<"B"," ","f","i","t","s"," ","b","e","s","t",".","\n","F","i","n","a","l"," ","a","n","s","w","e","r",":"," ","B">>
T_think_final_C == <<"N","o","t"," ","s","u","r","e",".","\n","F","i","n","a","l"," ","a","n","s","w","e","r",":"," ","C">>

\* one pass of the loop of score_raw_responses without a judge
\* (scoring.py:232-269)
ScoreOne(row, question) ==
    ScoredRow(row, question,
              IsCorrect(row, question, [enabled |-> FALSE, judge_model_id |-> NoneId],
                        {}, T_empty))

\* the scored row of sample sample_idx of QuestionB whose completion is text:
\* sampled (sampling.py:227-260), then scored
ScoredSample(sample_idx, text) ==
    ScoreOne(SampleRow(QuestionB, ConditionFinalLetter, "m1", sample_idx, text, 0),
             QuestionB)

\* three samples of QuestionB, ending in B, C and B
ExampleRows ==
    [i \in 1..3 |->
        ScoredSample(i - 1, IF i = 2 THEN T_think_final_C ELSE T_think_final_B)]

SummaryInputs ==
    UNION {{CountRows("m1", "1", n, c) \o other : c \in 0..n, other \in OtherRows} :
             n \in 1..MaxN}
    \cup {ExampleRows}

InitSummary ==
    /\ f_pc = "call" /\ f_input \in SummaryInputs
    /\ f_condition = NoneId /\ f_output = <<>>
    /\ PipelineIdle /\ GenerateIdle /\ MetricsIdle

\* the values of num_samples_per_question the function is called with: none,
\* one, and the most samples of a question
SamplesPerQuestion == {0, 1, MaxN}

\* compute_metrics(f_input, num_samples_per_question) returns
SummaryReturns ==
    /\ f_pc = "call"
    /\ \E num_samples_per_question \in SamplesPerQuestion :
           f_output' = compute_metrics(f_input, num_samples_per_question)
    /\ f_pc' = "return"
    /\ UNCHANGED <<f_input, f_condition, pipeline_vars, generate_vars, metrics_vars>>

NextSummary == SummaryReturns

SpecSummary == InitSummary /\ [][NextSummary]_vars

(***************************************************************************)
(* C12                                                                     *)
(***************************************************************************)
\* the positions of the records of a summary row's triple
RecordsOf(s, rws) ==
    {i \in 1..Len(rws) : /\ rws[i].dataset = s.dataset
                         /\ rws[i].model_id = s.model_id
                         /\ rws[i].condition_id = s.condition_id}

\* the distinct questions of the triple
QuestionsOf(s, rws) == {rws[i].question_id : i \in RecordsOf(s, rws)}

\* n and c of a question of the triple
SamplesOf(s, rws, q) == Cardinality({i \in RecordsOf(s, rws) : rws[i].question_id = q})

CorrectOf(s, rws, q) ==
    Cardinality({i \in RecordsOf(s, rws) : rws[i].question_id = q /\ rws[i].is_correct})

\* the quotient f (numerator, denominator) is a / b
IsQuotient(f, a, b) == b > 0 /\ f[2] > 0 /\ f[1] * b = a * f[2]

\* min(t, n) as the claim writes it
CappedAt(t, n) == IF n < t THEN n ELSE t

\* C12: in each summary row, a question with c correct samples out of n
\* counts toward frac_questions_all_samples_correct iff c = n, toward
\* frac_questions_ge_23_correct iff c >= min(23, n) and toward
\* frac_questions_ge_13_correct iff c >= min(13, n); each fraction is the
\* number of such questions over the number of distinct questions of the
\* (dataset, model, condition) triple
C12_RobustnessFractions ==
    f_pc = "return" =>
        \A k \in 1..Len(f_output) :
            LET s  == f_output[k]
                qs == QuestionsOf(s, f_input)
                n(q) == SamplesOf(s, f_input, q)
                c(q) == CorrectOf(s, f_input, q)
            IN  /\ IsQuotient(s.frac_questions_all_samples_correct,
                              Cardinality({q \in qs : c(q) = n(q)}), Cardinality(qs))
                /\ IsQuotient(s.frac_questions_ge_23_correct,
                              Cardinality({q \in qs : c(q) >= CappedAt(23, n(q))}), Cardinality(qs))
                /\ IsQuotient(s.frac_questions_ge_13_correct,
                              Cardinality({q \in qs : c(q) >= CappedAt(13, n(q))}), Cardinality(qs))

\* a question with 25 samples, 23 of them correct, alone in its triple: it
\* counts toward the ge_23 and the ge_13 fraction and not toward all-correct
C12_Witness ==
    /\ f_pc = "return"
    /\ f_input = CountRows("m1", "1", 25, 23)
    /\ Len(f_output) = 1
    /\ f_output[1].frac_questions_ge_23_correct = <<1, 1>>
    /\ f_output[1].frac_questions_ge_13_correct = <<1, 1>>
    /\ f_output[1].frac_questions_all_samples_correct = <<0, 1>>

(***************************************************************************)
(* C13                                                                     *)
(***************************************************************************)
\* the (dataset, model id, condition id) triple of a record or a summary row
Triple(r) == <<r.dataset, r.model_id, r.condition_id>>

\* C13: there is one summary row for every (dataset, model id, condition id)
\* triple of the records, and its mean_accuracy is the number of the
\* triple's records with is_correct over the number of the triple's records,
\* its mean_refusal_rate the number with is_refusal over that count, and its
\* mean_reasoning_tokens the sum of their token estimates over that count
C13_MeansOverTheTriple ==
    f_pc = "return" =>
        /\ {Triple(f_output[k]) : k \in 1..Len(f_output)}
               = {Triple(f_input[i]) : i \in 1..Len(f_input)}
        /\ \A j, k \in 1..Len(f_output) : Triple(f_output[j]) = Triple(f_output[k]) => j = k
        /\ \A k \in 1..Len(f_output) :
               LET s    == f_output[k]
                   recs == RecordsOf(s, f_input)
                   count == Cardinality(recs)
               IN  /\ IsQuotient(s.mean_accuracy,
                                 Cardinality({i \in recs : f_input[i].is_correct}), count)
                   /\ IsQuotient(s.mean_refusal_rate,
                                 Cardinality({i \in recs : f_input[i].is_refusal}), count)
                   /\ IsQuotient(s.mean_reasoning_tokens,
                                 SumOver(recs, [i \in recs |-> f_input[i].reasoning_token_estimate]),
                                 count)

\* the question with gold letter B and three final_answer_letter samples
\* ending in 'Final answer: B', 'Final answer: C', 'Final answer: B': scored
\* true, false, true, with mean accuracy 2/3
C13_Witness ==
    /\ f_pc = "return"
    /\ f_input = ExampleRows
    /\ [i \in 1..3 |-> f_input[i].predicted_option_letter] = <<<<"B">>, <<"C">>, <<"B">>>>
    /\ [i \in 1..3 |-> f_input[i].is_correct] = <<TRUE, FALSE, TRUE>>
    /\ Len(f_output) = 1
    /\ f_output[1].mean_accuracy = <<2, 3>>

(***************************************************************************)
(* metrics.py: compute_condition_comparison on the summary rows of up to   *)
(* MaxSummaryRows (dataset, model, condition) triples                      *)
(***************************************************************************)
MaxSummaryRows == 3

\* the mean accuracies 0.0, 0.6 and 0.8
Accuracies == {<<0, 1>>, <<3, 5>>, <<4, 5>>}

\* the fields of a summary row the comparison reads
ComparedRow(dataset, model_id, condition_id, mean_accuracy) ==
    [dataset |-> dataset, model_id |-> model_id, condition_id |-> condition_id,
     mean_accuracy |-> mean_accuracy]

ComparedPool ==
    {ComparedRow(d, mo, co, a) : d \in {"gpqa", "mmlu_pro"}, mo \in {"m1", "m2"},
                                 co \in {DEFAULT_BASELINE, "expert"}, a \in Accuracies}

\* compute_metrics returns one row per triple: the triples of a list differ
ComparedInputs ==
    {<<>>} \cup
    {rs \in SeqsUpTo(ComparedPool, MaxSummaryRows) :
        \A i, j \in 1..Len(rs) :
            (rs[i].dataset = rs[j].dataset /\ rs[i].model_id = rs[j].model_id
                /\ rs[i].condition_id = rs[j].condition_id) => i = j}

InitComparison ==
    /\ f_pc = "call" /\ f_input \in ComparedInputs
    /\ f_condition = NoneId /\ f_output = <<>>
    /\ PipelineIdle /\ GenerateIdle /\ MetricsIdle

\* compute_condition_comparison(f_input) returns
ComparisonReturns ==
    /\ f_pc = "call"
    /\ f_output' = compute_condition_comparison(f_input, DEFAULT_BASELINE)
    /\ f_pc' = "return"
    /\ UNCHANGED <<f_input, f_condition, pipeline_vars, generate_vars, metrics_vars>>

NextComparison == ComparisonReturns

SpecComparison == InitComparison /\ [][NextComparison]_vars

(***************************************************************************)
(* C14                                                                     *)
(***************************************************************************)
\* the rows of the baseline condition with the dataset and the model of row k
BaselinesFor(rws, k) ==
    {j \in 1..Len(rws) : /\ rws[j].condition_id = DEFAULT_BASELINE
                         /\ rws[j].dataset = rws[k].dataset
                         /\ rws[j].model_id = rws[k].model_id}

\* the quotient d is a - b
IsDifference(d, a, b) ==
    d[2] > 0 /\ d[1] * a[2] * b[2] = (a[1] * b[2] - b[1] * a[2]) * d[2]

\* the quotient r is a / b, b > 0
IsRatio(r, a, b) ==
    r[2] > 0 /\ r[1] * b[1] * a[2] = a[1] * b[2] * r[2]

\* C14: compute_condition_comparison returns one comparison row per summary
\* row, in the same order; where a row of the baseline condition exists for
\* the same (dataset, model id), delta_accuracy is the accuracy minus the
\* baseline accuracy and relative_accuracy their quotient, +infinity when the
\* baseline accuracy is 0; where none exists, delta_accuracy is 0 and
\* relative_accuracy is 1
C14_ComparisonRows ==
    f_pc = "return" =>
        /\ Len(f_output) = Len(f_input)
        /\ \A k \in 1..Len(f_input) :
               LET row == f_input[k]
                   cmp == f_output[k]
                   bs  == BaselinesFor(f_input, k)
               IN  /\ cmp.dataset = row.dataset /\ cmp.model_id = row.model_id
                   /\ cmp.condition_id = row.condition_id
                   /\ cmp.mean_accuracy = row.mean_accuracy
                   /\ \A j \in bs :
                          LET base == f_input[j].mean_accuracy
                          IN  /\ IsDifference(cmp.delta_accuracy, row.mean_accuracy, base)
                              /\ IF base[1] = 0
                                 THEN cmp.relative_accuracy = Infinity
                                 ELSE /\ cmp.relative_accuracy # Infinity
                                      /\ IsRatio(cmp.relative_accuracy, row.mean_accuracy, base)
                   /\ bs = {} =>
                          /\ cmp.delta_accuracy = <<0, 1>>
                          /\ cmp.relative_accuracy = <<1, 1>>

\* baseline accuracy 0.80 and target accuracy 0.60: delta -0.20, relative 0.75
C14_Witness ==
    /\ f_pc = "return"
    /\ f_input = <<ComparedRow("gpqa", "m1", DEFAULT_BASELINE, <<4, 5>>),
                   ComparedRow("gpqa", "m1", "expert", <<3, 5>>)>>
    /\ f_output[2].delta_accuracy = <<-1, 5>>
    /\ f_output[2].relative_accuracy = <<3, 4>>

(***************************************************************************)
(* sampling.py: the parsers and the splitter on completions made of lines  *)
(***************************************************************************)
L_short_C == <<"T","h","e"," ","c","o","r","r","e","c","t"," ","a","n","s","w","e","r"," ","i","s"," ","(","C",")">>

\* the phrase in capitals
L_SHORT_C == <<"T","H","E"," ","C","O","R","R","E","C","T"," ","A","N","S","W","E","R"," ","I","S"," ","(","C",")">>

\* the phrase with its letter in quotes
L_short_quoted_D == <<"T","h","e"," ","c","o","r","r","e","c","t"," ","a","n","s","w","e","r"," ","i","s"," ","\"","D","\"">>

L_final_B == <<"F","i","n","a","l"," ","a","n","s","w","e","r",":"," ","B">>

\* the final answer in capitals
L_FINAL_E == <<"F","I","N","A","L"," ","A","N","S","W","E","R",":"," ","E",".">>

\* a final answer in words, indented
L_final_42 == <<" "," ","F","i","n","a","l"," ","a","n","s","w","e","r",":"," ","4","2"," ","!","?">>

\* a final answer after a dash, followed by a blank
L_final_no == <<"F","i","n","a","l"," ","a","n","s","w","e","r"," ","-"," ","n","o","."," ">>

\* a line with the word I, which is a letter of A-J
L_I_think == <<"I"," ","t","h","i","n","k"," ","s","o",".">>

\* a line without a letter of A-J
L_so == <<"S","o",".">>

\* an empty line
L_blank == <<>>

\* an indented line
L_indented == <<" "," ","a","b","o","u","t"," ","7">>

L_answer_A == <<"A","n","s","w","e","r",":"," ","A">>

\* a line with 'final' and a letter, no 'answer'
L_final_call == <<"m","y"," ","f","i","n","a","l"," ","c","a","l","l"," ","i","s"," ","G">>

L_correct_E == <<"C","o","r","r","e","c","t"," ","a","n","s","w","e","r",":"," ","E">>

\* the lines a completion is made of
ParseLines ==
    {L_short_C, L_SHORT_C, L_short_quoted_D, L_final_B, L_FINAL_E, L_final_42,
     L_final_no, L_I_think, L_so, L_blank, L_indented, L_answer_A, L_final_call,
     L_correct_E}

\* the longest completion with freely chosen lines
MaxLines == 3

\* the lines that pad a long completion
MaxPadding == 5

\* n times the line
RECURSIVE Repeat(_, _)
Repeat(line, n) == IF n = 0 THEN <<>> ELSE <<line>> \o Repeat(line, n - 1)

\* the completions: up to MaxLines lines, or a first and a last line with
\* lines of padding in between
ParseTexts ==
    {T_empty}
    \cup {JoinLines(ls) : ls \in SeqsUpTo(ParseLines, MaxLines)}
    \cup {JoinLines(<<a>> \o Repeat(L_so, k) \o <<b>>) :
             a \in ParseLines, b \in ParseLines, k \in {MaxPadding - 2, MaxPadding}}

InitParse ==
    /\ f_pc = "call" /\ f_input \in ParseTexts
    /\ f_condition = NoneId /\ f_output = <<>>
    /\ PipelineIdle /\ GenerateIdle /\ MetricsIdle

\* parse_answer_mcq_short_format(f_input) returns
ShortReturns ==
    /\ f_pc = "call"
    /\ f_output' = parse_answer_mcq_short_format(f_input)
    /\ f_pc' = "short_returned"
    /\ UNCHANGED <<f_input, f_condition, pipeline_vars, generate_vars, metrics_vars>>

\* parse_answer_mcq_final_answer(f_input) returns
FinalReturns ==
    /\ f_pc = "call"
    /\ f_output' = parse_answer_mcq_final_answer(f_input)
    /\ f_pc' = "final_returned"
    /\ UNCHANGED <<f_input, f_condition, pipeline_vars, generate_vars, metrics_vars>>

\* parse_answer_open_final_answer(f_input) returns
OpenReturns ==
    /\ f_pc = "call"
    /\ f_output' = parse_answer_open_final_answer(f_input)
    /\ f_pc' = "open_returned"
    /\ UNCHANGED <<f_input, f_condition, pipeline_vars, generate_vars, metrics_vars>>

\* split_reasoning_and_final_answer(f_input) returns
SplitReturns ==
    /\ f_pc = "call"
    /\ f_output' = split_reasoning_and_final_answer(f_input)
    /\ f_pc' = "split_returned"
    /\ UNCHANGED <<f_input, f_condition, pipeline_vars, generate_vars, metrics_vars>>

NextParse ==
    \/ ShortReturns
    \/ FinalReturns
    \/ OpenReturns
    \/ SplitReturns

SpecParse == InitParse /\ [][NextParse]_vars

(***************************************************************************)
(* sampling.py: the choice of the parser, for every condition type and     *)
(* answer format                                                           *)
(***************************************************************************)
\* the longest completion a parser is chosen for, in lines
MaxSelectLines == 2

SelectLines == {L_short_C, L_final_B, L_final_42, L_I_think, L_answer_A}

SelectTexts ==
    {T_empty} \cup {JoinLines(ls) : ls \in SeqsUpTo(SelectLines, MaxSelectLines)}

\* a condition of every type with every answer format
SelectConditions ==
    {Condition("c1", type, answer_format) :
        type \in {"mcq", "open"},
        answer_format \in {"the_correct_answer_is", "final_answer_letter", "final_answer_text"}}

InitSelect ==
    /\ f_pc = "call" /\ f_input \in SelectTexts /\ f_condition \in SelectConditions
    /\ f_output = <<>>
    /\ PipelineIdle /\ GenerateIdle /\ MetricsIdle

\* the completion f_input of a sample under f_condition is parsed
\* (sampling.py:230-239 and 299-307)
ParseReturns ==
    /\ f_pc = "call"
    /\ f_output' = ParseResponse(f_condition, f_input)
    /\ f_pc' = "return"
    /\ UNCHANGED <<f_input, f_condition, pipeline_vars, generate_vars, metrics_vars>>

NextSelect == ParseReturns

SpecSelect == InitSelect /\ [][NextSelect]_vars

(***************************************************************************)
(* C15                                                                     *)
(***************************************************************************)
\* what a sample records when a parser for letters returned letter
LetterParsed(letter) == [predicted_letter |-> letter, predicted_text |-> letter]

\* what a sample records when the open-ended parser returned text
TextParsed(text) == [predicted_letter |-> <<>>, predicted_text |-> text]

\* C15, as the code has it: the parser is chosen from the condition alone,
\* by its type and then its answer format: under type mcq the format
\* the_correct_answer_is selects the short-format parser and every other
\* format the final-answer letter parser; under any other type the
\* open-ended parser is used whatever the format; the text plays no part
C15_ParserFollowsTypeThenFormat ==
    f_pc = "return" =>
        IF f_condition.type = "mcq"
        THEN IF f_condition.answer_format = "the_correct_answer_is"
             THEN f_output = LetterParsed(parse_answer_mcq_short_format(f_input))
             ELSE f_output = LetterParsed(parse_answer_mcq_final_answer(f_input))
        ELSE f_output = TextParsed(parse_answer_open_final_answer(f_input))

\* C15 as stated: the answer format selects the parser for every combination
\* of condition type and answer format
C15_FormatAloneSelectsParser ==
    f_pc = "return" =>
        /\ f_condition.answer_format = "the_correct_answer_is" =>
               f_output.predicted_text = parse_answer_mcq_short_format(f_input)
        /\ f_condition.answer_format = "final_answer_letter" =>
               f_output.predicted_text = parse_answer_mcq_final_answer(f_input)
        /\ f_condition.answer_format = "final_answer_text" =>
               f_output.predicted_text = parse_answer_open_final_answer(f_input)

\* an open condition whose format is the_correct_answer_is: the completion
\* went through the open-ended parser, which returned its last line
C15_Witness ==
    /\ f_pc = "return"
    /\ f_condition.type = "open"
    /\ f_condition.answer_format = "the_correct_answer_is"
    /\ f_input = L_short_C
    /\ f_output = TextParsed(L_short_C)
    /\ parse_answer_mcq_short_format(f_input) = <<"C">>

(***************************************************************************)
(* C16                                                                     *)
(***************************************************************************)
\* the phrase with the letter in parentheses and in quotes, in capitals
PhraseInParentheses(letter) == <<"T","H","E"," ","C","O","R","R","E","C","T"," ","A","N","S","W","E","R"," ","I","S"," ","(">> \o <<letter, ")">>

PhraseInQuotes(letter) == <<"T","H","E"," ","C","O","R","R","E","C","T"," ","A","N","S","W","E","R"," ","I","S"," ","\"">> \o <<letter, "\"">>

\* the letters the text gives in the phrase, in whatever letter case the
\* phrase is written
PhraseLetters(text) ==
    {letter \in LettersAJ :
        \/ Occurs(PhraseInParentheses(letter), StrUpper(text))
        \/ Occurs(PhraseInQuotes(letter), StrUpper(text))}

\* C16: for every text that contains the phrase 'The correct answer is (C)'
\* in any letter-case variant or any quoted variant, for a letter C of A-J
\* (and for no other letter), parse_answer_mcq_short_format returns that
\* letter in upper case
C16_ShortFormatReadsEveryVariant ==
    f_pc = "short_returned" =>
        \A letter \in LettersAJ :
            PhraseLetters(f_input) = {letter} => f_output = <<letter>>

\* the same for the phrase as the patterns of the code spell it: 'The' or
\* 'the', the rest in lower case, the letter in capitals
C16_ShortFormatReadsSpelledVariant ==
    f_pc = "short_returned" =>
        \A letter \in LettersAJ :
            (/\ PhraseLetters(f_input) = {letter}
             /\ ~Occurs(L_SHORT_C, f_input)) => f_output = <<letter>>

(***************************************************************************)
(* C17                                                                     *)
(***************************************************************************)
\* the non-empty lines of a text
NonEmptyLines(text) == SelectSeq(SplitLines(text), LAMBDA line : line # <<>>)

\* the last three of them, or all of them when they are fewer
LastThreeNonEmptyLines(text) ==
    LET ls == NonEmptyLines(text)
    IN  IF Len(ls) <= 3 THEN ls ELSE SubSeq(ls, Len(ls) - 2, Len(ls))

\* a letter of A-J that is a word of its own in the line
HasStandaloneLetter(line) ==
    \E i \in 1..Len(line) :
        /\ line[i] \in LettersAJ
        /\ (i = 1 \/ line[i - 1] \notin WordChars)
        /\ (i = Len(line) \/ line[i + 1] \notin WordChars)

NoStandaloneLetterAtTheEnd(text) ==
    LET ls == LastThreeNonEmptyLines(text)
    IN  \A k \in 1..Len(ls) : ~HasStandaloneLetter(ls[k])

\* one of the four answer phrases of the parser occurs in the text
AnswerPhraseOccurs(text) ==
    \E j \in 1..Len(ShortPatterns) : Search(ShortPatterns[j], Strip(text)).ok

\* C17, as the code has it: for every text in which none of the parser's
\* answer phrases occurs ('the correct answer is', 'correct answer' or
\* 'answer', followed by a letter of A-J) and whose last three non-empty
\* lines contain no standalone letter A-J, parse_answer_mcq_short_format
\* returns the empty string
C17_EmptyWithoutPhraseAndLetter ==
    f_pc = "short_returned" =>
        ((~AnswerPhraseOccurs(f_input) /\ NoStandaloneLetterAtTheEnd(f_input))
            => f_output = <<>>)

\* C17 as stated: the last three non-empty lines decide alone
C17_EmptyWithoutLetterAtTheEnd ==
    f_pc = "short_returned" =>
        (NoStandaloneLetterAtTheEnd(f_input) => f_output = <<>>)

\* a text of five lines with a standalone letter in the first and none in
\* the last three: the parser returned the empty string
C17_Witness ==
    /\ f_pc = "short_returned"
    /\ f_input = JoinLines(<<L_I_think, L_so, L_so, L_so, L_so>>)
    /\ HasStandaloneLetter(L_I_think)
    /\ NoStandaloneLetterAtTheEnd(f_input)
    /\ ~AnswerPhraseOccurs(f_input)
    /\ f_output = <<>>

(***************************************************************************)
(* C18                                                                     *)
(***************************************************************************)
\* the word occurs in the text and no word character follows it
OccursAsWord(word, text) ==
    \E i \in 1..(Len(text) - Len(word) + 1) :
        /\ SubSeq(text, i, i + Len(word) - 1) = word
        /\ (i + Len(word) > Len(text) \/ text[i + Len(word)] \notin WordChars)

\* the letters the text gives as 'final answer: X' or 'final answer - X', in
\* whatever letter case the words are written
FinalAnswerLetters(text) ==
    {letter \in LettersAJ :
        \/ OccursAsWord(<<"F","I","N","A","L"," ","A","N","S","W","E","R",":"," ">> \o <<letter>>, StrUpper(text))
        \/ OccursAsWord(<<"F","I","N","A","L"," ","A","N","S","W","E","R"," ","-"," ">> \o <<letter>>, StrUpper(text))}

\* C18: parse_answer_mcq_final_answer returns X for every text that contains
\* 'Final answer: X' for a letter X of A-J (and for no other letter), the
\* words 'final answer' in any letter case, followed by a colon or a dash
C18_FinalAnswerInAnyCase ==
    f_pc = "final_returned" =>
        \A letter \in LettersAJ :
            FinalAnswerLetters(f_input) = {letter} => f_output = <<letter>>

\* the same for the words as the patterns of the code spell them: 'Final' or
\* 'final', 'Answer' or 'answer'
C18_FinalAnswerAsSpelled ==
    f_pc = "final_returned" =>
        \A letter \in LettersAJ :
            (/\ FinalAnswerLetters(f_input) = {letter}
             /\ ~Occurs(L_FINAL_E, f_input)) => f_output = <<letter>>

(***************************************************************************)
(* C19                                                                     *)
(***************************************************************************)
\* the text without the blanks around it
Trimmed(text) ==
    LET keep == {i \in 1..Len(text) : text[i] \notin SpaceChars}
    IN  IF keep = {} THEN <<>>
        ELSE [k \in 1..(SetMax(keep) - SetMin(keep) + 1) |-> text[SetMin(keep) + k - 1]]

\* the text without the '.', '!' and '?' at its end
WithoutTrailingPunctuation(text) ==
    LET keep == {i \in 1..Len(text) : text[i] \notin {".", "!", "?"}}
    IN  IF keep = {} THEN <<>> ELSE SubSeq(text, 1, SetMax(keep))

\* the places of a line where 'Final answer' or 'final answer' stands and a
\* colon or a dash follows it, blanks allowed in between, with something
\* after the colon or dash: each as <<start, position of the colon or dash>>
FinalAnswerMarks(line) ==
    {<<i, j>> \in (1..Len(line)) \X (1..Len(line)) :
        /\ line[i] \in {"F", "f"}
        /\ i + 11 < j
        /\ SubSeq(line, i + 1, i + 11) = <<"i","n","a","l"," ","a","n","s","w","e","r">>
        /\ \A k \in (i + 12)..(j - 1) : line[k] \in SpaceChars
        /\ line[j] \in {":", "-"}
        /\ j < Len(line)}

IsFinalAnswerLine(line) == FinalAnswerMarks(line) # {}

\* what follows the first colon or dash of the leftmost mark
AfterFinalAnswer(line) ==
    LET i == SetMin({mk[1] : mk \in FinalAnswerMarks(line)})
        j == SetMin({mk[2] : mk \in {n \in FinalAnswerMarks(line) : n[1] = i}})
    IN  SubSeq(line, j + 1, Len(line))

\* the same without the blanks before it, as the pattern captures it
CapturedAfterFinalAnswer(line) ==
    LET rest == AfterFinalAnswer(line)
        keep == {i \in 1..Len(rest) : rest[i] \notin SpaceChars}
    IN  IF keep = {} THEN <<rest[Len(rest)]>> ELSE SubSeq(rest, SetMin(keep), Len(rest))

\* the first line of the lines that is a 'Final answer: <text>' line, or 0
FirstFinalAnswerLine(lines) ==
    LET hit == {k \in 1..Len(lines) : IsFinalAnswerLine(lines[k])}
    IN  IF hit = {} THEN 0 ELSE SetMin(hit)

\* C19, as the code has it: on the lines of the trimmed text,
\* parse_answer_open_final_answer returns, when a line has 'Final answer' or
\* 'final answer', a colon or a dash and some text after it, the text after
\* the colon or dash of the first such line, trimmed, with the '.', '!' and
\* '?' at its end removed, and trimmed again; without such a line it
\* returns the last line trimmed of the blanks around it, and the empty
\* string for a text that is empty or blank
C19_OpenAnswerTrimmed ==
    f_pc = "open_returned" =>
        LET lines == SplitLines(Trimmed(f_input))
            first == FirstFinalAnswerLine(lines)
        IN  IF first # 0
            THEN f_output = Trimmed(WithoutTrailingPunctuation(Trimmed(AfterFinalAnswer(lines[first]))))
            ELSE IF Len(lines) > 0
            THEN f_output = Trimmed(lines[Len(lines)])
            ELSE f_output = <<>>

\* C19 as stated: the captured text of the first 'Final answer: <text>' line
\* with its trailing '.', '!' and '?' removed, and without such a line the
\* last non-empty line verbatim
C19_OpenAnswerVerbatim ==
    f_pc = "open_returned" =>
        LET lines == SplitLines(Trimmed(f_input))
            first == FirstFinalAnswerLine(lines)
            given == NonEmptyLines(f_input)
        IN  IF first # 0
            THEN f_output = WithoutTrailingPunctuation(CapturedAfterFinalAnswer(lines[first]))
            ELSE Len(given) > 0 => f_output = given[Len(given)]

\* a text whose first 'Final answer' line is followed by a second one: the
\* text of the first is returned without its punctuation and the blank
\* before it
C19_Witness ==
    /\ f_pc = "open_returned"
    /\ f_input = JoinLines(<<L_so, L_final_42, L_final_B>>)
    /\ f_output = <<"4", "2">>

(***************************************************************************)
(* C20                                                                     *)
(***************************************************************************)
\* the line has the words 'final answer' in the letter cases allowed by
\* first and rest, then a colon or a dash, blanks allowed in between
HasFinalAnswerColon(line, first, rest) ==
    \E i, j \in 1..Len(line) :
        /\ i + 11 < j
        /\ line[i] \in first
        /\ \A k \in 1..11 : line[i + k] \in rest[k]
        /\ \A k \in (i + 12)..(j - 1) : line[k] \in SpaceChars
        /\ line[j] \in {":", "-"}

\* 'inal answer' letter by letter: as written, and in either letter case
InalAnswerLower == [k \in 1..11 |-> {<<"i","n","a","l"," ","a","n","s","w","e","r">>[k]}]

InalAnswerAnyCase ==
    [k \in 1..11 |-> {<<"i","n","a","l"," ","a","n","s","w","e","r">>[k], <<"I","N","A","L"," ","A","N","S","W","E","R">>[k]}]

\* the line has 'The correct answer is' or 'the correct answer is'
HasTheCorrectAnswerIs(line) ==
    \E i \in 1..Len(line) :
        /\ line[i] \in {"T", "t"}
        /\ i + Len(S_he_correct_answer_is) <= Len(line)
        /\ SubSeq(line, i + 1, i + Len(S_he_correct_answer_is)) = S_he_correct_answer_is

\* the cutoff line: the first 'final answer:' line, or failing that the first
\* 'the correct answer is' line, or 0
Cutoff(lines, first, rest) ==
    LET fin == {k \in 1..Len(lines) : HasFinalAnswerColon(lines[k], first, rest)}
        cor == {k \in 1..Len(lines) : HasTheCorrectAnswerIs(lines[k])}
    IN  IF fin # {} THEN SetMin(fin) ELSE IF cor # {} THEN SetMin(cor) ELSE 0

\* the result is the partition of the lines of the trimmed text at the cutoff
IsPartitionAt(result, text, cut) ==
    LET lines == SplitLines(Trimmed(text))
    IN  IF cut # 0
        THEN /\ result.final_line = lines[cut]
             /\ result.reasoning = Trimmed(JoinLines(SubSeq(lines, 1, cut - 1)))
             /\ ~Occurs(result.final_line, result.reasoning)
        ELSE /\ result.final_line = <<>>
             /\ result.reasoning = Trimmed(text)

\* C20: split_reasoning_and_final_answer is a partition at the cutoff line:
\* the final line is the first line matching 'final answer:' in any letter
\* case, or failing that the first line matching 'the correct answer is';
\* the reasoning is the lines strictly before it and never contains the
\* final line's content; if neither appears, the reasoning is the entire
\* text and the final line is empty
C20_PartitionAtFinalAnswerInAnyCase ==
    f_pc = "split_returned" =>
        IsPartitionAt(f_output, f_input,
                      Cutoff(SplitLines(Trimmed(f_input)), {"F", "f"}, InalAnswerAnyCase))

\* the same for 'Final answer' and 'final answer' as the code spells them
C20_PartitionAtFinalAnswerAsSpelled ==
    f_pc = "split_returned" =>
        IsPartitionAt(f_output, f_input,
                      Cutoff(SplitLines(Trimmed(f_input)), {"F", "f"}, InalAnswerLower))

(***************************************************************************)
(* sampling.py: approximate_token_count, called on one text and then on    *)
(* another                                                                 *)
(***************************************************************************)
\* the most characters of a text of words
MaxChars == 9

\* no leading, trailing or repeated whitespace, and single spaces between
\* the words
NoExtraWhitespace(s) ==
    /\ \A i \in 1..Len(s) : s[i] \in SpaceChars => s[i] = " "
    /\ Len(s) > 0 => s[1] # " " /\ s[Len(s)] # " "
    /\ \A i \in 1..(Len(s) - 1) : ~(s[i] = " " /\ s[i + 1] = " ")

\* the texts of up to MaxChars characters made of words of the letter a
\* with single spaces between them
PlainTexts ==
    UNION {{s \in [1..n -> {"a", " "}] : NoExtraWhitespace(s)} : n \in 0..MaxChars}

\* short texts with any whitespace, and a text of whitespace alone
SpacedTexts ==
    UNION {[1..n -> {"a", " ", "\n"}] : n \in 1..3} \cup {[i \in 1..MaxChars |-> " "]}

TokenTexts == PlainTexts \cup SpacedTexts

InitTokens ==
    /\ f_pc = "call" /\ f_input \in {<<s>> : s \in TokenTexts}
    /\ f_condition = NoneId /\ f_output = <<>>
    /\ PipelineIdle /\ GenerateIdle /\ MetricsIdle

\* approximate_token_count(the last text of f_input) returns
EstimateReturns ==
    /\ f_pc = "call"
    /\ f_output' = Append(f_output, approximate_token_count(f_input[Len(f_input)]))
    /\ f_pc' = "return"
    /\ UNCHANGED <<f_input, f_condition, pipeline_vars, generate_vars, metrics_vars>>

\* the function is called on a second text
EstimateCalledAgain ==
    /\ f_pc = "return" /\ Len(f_input) = 1
    /\ \E t \in TokenTexts : f_input' = Append(f_input, t)
    /\ f_pc' = "call"
    /\ UNCHANGED <<f_output, f_condition, pipeline_vars, generate_vars, metrics_vars>>

NextTokens ==
    \/ EstimateReturns
    \/ EstimateCalledAgain

SpecTokens == InitTokens /\ [][NextTokens]_vars

\* the words of a text, counted at their last characters
WordsOf(s) ==
    Cardinality({i \in 1..Len(s) :
                    /\ s[i] \notin SpaceChars
                    /\ (i = Len(s) \/ s[i + 1] \in SpaceChars)})

\* the text of the call that returned last, and what it returned
LastText == f_input[Len(f_input)]

LastEstimate == f_output[Len(f_output)]

\* C21 as stated: for a text of w words and c characters the estimate is 0
\* when the text is empty and otherwise max(1, floor((w / 0.75 + c / 4) / 2)),
\* which is max(1, floor((16 w + 3 c) / 24))
C21_FloorOfTheAverage ==
    f_pc = "return" =>
        LastEstimate = IF Len(LastText) = 0 THEN 0
                       ELSE Max2(1, (16 * WordsOf(LastText) + 3 * Len(LastText)) \div 24)

\* C21: for a text of w words and c characters the estimate is 0 when the
\* text is empty and otherwise max(1, (floor(w / 0.75) + floor(c / 4)) // 2):
\* each of the two estimates is cut to an integer before they are averaged
C21_AverageOfTheFloors ==
    f_pc = "return" =>
        LastEstimate = IF Len(LastText) = 0 THEN 0
                       ELSE Max2(1, ((4 * WordsOf(LastText)) \div 3
                                        + Len(LastText) \div 4) \div 2)

\* a text of two words and six characters: 1, where the floor of the average
\* 2.08 of 2.67 and 1.5 is 2
C21_Witness ==
    /\ f_pc = "return"
    /\ LastText = <<"a", "a", " ", "a", "a", "a">>
    /\ LastEstimate = 1

\* C22 as stated: of two texts with no extra whitespace the one that is not
\* longer has the estimate that is not larger, and the estimate of the empty
\* text is 0
C22_MonotonicInLength ==
    /\ f_pc = "return" /\ Len(f_input) = 2
          /\ NoExtraWhitespace(f_input[1]) /\ NoExtraWhitespace(f_input[2])
          /\ Len(f_input[1]) <= Len(f_input[2])
       => f_output[1] <= f_output[2]
    /\ f_pc = "return" /\ LastText = <<>> => LastEstimate = 0

\* C22: of two texts the one that has neither more characters nor more words
\* has the estimate that is not larger, and the estimate of the empty text
\* is 0
C22_MonotonicInLengthAndWords ==
    /\ f_pc = "return" /\ Len(f_input) = 2
          /\ Len(f_input[1]) <= Len(f_input[2])
          /\ WordsOf(f_input[1]) <= WordsOf(f_input[2])
       => f_output[1] <= f_output[2]
    /\ f_pc = "return" /\ LastText = <<>> => LastEstimate = 0

\* 'aaaa' and then 'aaaa aaaa': estimates 1 and 2
C22_Witness ==
    /\ f_pc = "return"
    /\ f_input = << <<"a","a","a","a">>, <<"a","a","a","a"," ","a","a","a","a">> >>
    /\ f_output = <<1, 2>>

(***************************************************************************)
(* metrics.py: compute_confidence_interval on an accuracy and a sample     *)
(* count                                                                   *)
(***************************************************************************)
\* the most samples of an interval
MaxCount == 100

\* the accuracies the function is called with: correct / n for a count of
\* correct samples as metrics.py:173 passes it, and two values that are not
\* proportions
IntervalInputs ==
    UNION {{<<Frac(correct, n), n>> : correct \in 0..n} : n \in 1..MaxCount}
    \cup {<<acc, n>> : acc \in {<<-1, 2>>, <<3, 2>>}, n \in 1..MaxCount}
    \cup {<<acc, 0>> : acc \in {<<0, 1>>, <<1, 2>>, <<1, 1>>}}

InitInterval ==
    /\ f_pc = "call" /\ f_input \in IntervalInputs
    /\ f_condition = NoneId /\ f_output = <<>>
    /\ PipelineIdle /\ GenerateIdle /\ MetricsIdle

\* compute_confidence_interval(accuracy, n_samples) returns
IntervalReturns ==
    /\ f_pc = "call"
    /\ f_output' = compute_confidence_interval(f_input[1], f_input[2])
    /\ f_pc' = "return"
    /\ UNCHANGED <<f_input, f_condition, pipeline_vars, generate_vars, metrics_vars>>

NextInterval == IntervalReturns

SpecInterval == InitInterval /\ [][NextInterval]_vars

RECURSIVE QuotientLeq(_, _, _, _)
\* n1 / d1 <= n2 / d2 for natural numerators and positive denominators, by
\* the integer parts and then the remainders
QuotientLeq(n1, d1, n2, d2) ==
    IF n1 \div d1 # n2 \div d2 THEN n1 \div d1 < n2 \div d2
    ELSE IF n1 % d1 = 0 THEN TRUE
    ELSE IF n2 % d2 = 0 THEN FALSE
    ELSE QuotientLeq(d2, n2 % d2, d1, n1 % d1)

\* x / 1000 lies outside the Wilson score interval of correct / n: with
\* z = 1.96 the interval is where n (p - x)^2 <= z^2 x (1 - x), and outside
\* 625 (1000 correct - n x)^2 > 2401 n x (1000 - x)
OutsideWilson(correct, n, x) ==
    LET k == 25 * Abs(1000 * correct - n * x)
    IN  k > 0 /\ ~QuotientLeq(k, 2401, n * x * (1000 - x), k)

\* x / 1000 lies below the lower bound of the Wilson score interval
BelowWilson(correct, n, x) ==
    x < 0 \/ (n * x < 1000 * correct /\ OutsideWilson(correct, n, x))

\* x / 1000 lies above the upper bound of the Wilson score interval
AboveWilson(correct, n, x) ==
    x > 1000 \/ (n * x > 1000 * correct /\ OutsideWilson(correct, n, x))

\* the input is a proportion of n > 0 samples
IsProportion(input) ==
    input[2] > 0 /\ 0 <= input[1][1] /\ input[1][1] <= input[1][2]

\* the number of correct samples of a proportion
CorrectCount(input) == (input[1][1] * input[2]) \div input[1][2]

\* C23: the bounds returned are those of the Wilson score interval of p and n
\* for z = 1.96 (the two roots of n (p - x)^2 = z^2 x (1 - x), which are
\* center - spread and center + spread and lie in [0, 1]), to the two
\* thousandths that the integer arithmetic of compute_confidence_interval
\* here resolves; they are (0, 0) for n = 0; they satisfy
\* 0 <= lower <= upper <= 1; and for n = 100, p = 0.5 they are within a
\* thousandth of 0.404 and 0.596, as the roots are
C23_WilsonScoreInterval ==
    f_pc = "return" =>
        /\ 0 <= f_output.lower /\ f_output.lower <= f_output.upper
        /\ f_output.upper <= 1000
        /\ f_input[2] = 0 => f_output = [lower |-> 0, upper |-> 0]
        /\ IsProportion(f_input) =>
               LET n       == f_input[2]
                   correct == CorrectCount(f_input)
               IN  /\ BelowWilson(correct, n, f_output.lower - 2)
                   /\ ~BelowWilson(correct, n, f_output.lower + 1)
                   /\ ~AboveWilson(correct, n, f_output.upper - 1)
                   /\ AboveWilson(correct, n, f_output.upper + 2)
        /\ f_input = <<<<1, 2>>, 100>> =>
               /\ f_output.lower \in {403, 404}
               /\ f_output.upper \in {595, 596}
               /\ BelowWilson(50, 100, 403) /\ ~BelowWilson(50, 100, 405)
               /\ ~AboveWilson(50, 100, 595) /\ AboveWilson(50, 100, 597)

\* 50 correct of 100 samples: the interval from 0.403... to 0.596...
C23_Witness ==
    /\ f_pc = "return"
    /\ f_input = <<<<1, 2>>, 100>>
    /\ f_output = [lower |-> 403, upper |-> 596]

(***************************************************************************)
(* scoring.py: score_raw_responses on one raw record, without a judge      *)
(***************************************************************************)
\* the longest completion, in pieces
MaxRefusalParts == 3

\* pieces of completions: refusal phrases as listed and in capitals, the two
\* halves of a phrase, a phrase inside other words ('has an aim'), answers
RefusalParts ==
    {<<"I"," ","d","o","n","'","t"," ","k","n","o","w">>,
     <<"I"," ","D","O","N","'","T"," ","K","N","O","W">>,
     <<"I"," ","d","o"," ","n","o","t">>,
     <<" ","k","n","o","w">>,
     <<"A","s"," ","a","n"," ","A","I">>,
     <<"h","a","s"," ","a","n"," ","a","i","m">>,
     <<"I","'","m"," ","n","o","t"," ","s","u","r","e",".">>,
     <<"F","i","n","a","l"," ","a","n","s","w","e","r",":"," ","B">>,
     <<"F","i","n","a","l"," ","a","n","s","w","e","r",":"," ","C">>,
     <<"\n">>,
     <<" ">>,
     <<"I","t"," ","i","s"," ","c","l","e","a","r",".">>}

RefusalTexts == {T_empty} \cup {Concat(ps) : ps \in SeqsUpTo(RefusalParts, MaxRefusalParts)}

\* a multiple-choice question sampled under final_answer_letter and an open
\* question sampled under final_answer_text
RefusalCases ==
    {[question |-> QuestionB, condition |-> ConditionFinalLetter],
     [question |-> Q2, condition |-> Condition("c2", "open", "final_answer_text")]}

\* the raw record of a completion (sampling.py:227-260) and its question
InitRefusal ==
    /\ f_pc = "call"
    /\ f_input \in {[row      |-> SampleRow(k.question, k.condition, "m1", 0, text, 0),
                     question |-> k.question] : k \in RefusalCases, text \in RefusalTexts}
    /\ f_condition = NoneId /\ f_output = <<>>
    /\ PipelineIdle /\ GenerateIdle /\ MetricsIdle

\* the record is scored
ScoreReturns ==
    /\ f_pc = "call"
    /\ f_output' = ScoreOne(f_input.row, f_input.question)
    /\ f_pc' = "return"
    /\ UNCHANGED <<f_input, f_condition, pipeline_vars, generate_vars, metrics_vars>>

NextRefusal == ScoreReturns

SpecRefusal == InitRefusal /\ [][NextRefusal]_vars

\* phrase kw stands at position i of the text, the letter case set aside
PhraseAt(text, kw, i) ==
    /\ i + Len(kw) - 1 <= Len(text)
    /\ \A j \in 1..Len(kw) : LowerChar(text[i + j - 1]) = kw[j]

\* the text contains a phrase of the refusal list, the letter case set aside
HasRefusalPhrase(text) ==
    \E k \in 1..Len(REFUSAL_KEYWORDS) : \E i \in 1..Len(text) :
        PhraseAt(text, REFUSAL_KEYWORDS[k], i)

\* C24: is_refusal of a scored record is true iff its lower-cased raw response
\* contains a phrase of the refusal list as a substring, whatever the parsed
\* answer and is_correct are
C24_RefusalFromRawResponseAlone ==
    f_pc = "return" => (f_output.is_refusal <=> HasRefusalPhrase(f_output.raw_response))

\* a record that is correct and a refusal: "I'm not sure." and then
\* "Final answer: B" for the question whose letter is B
C24_Witness ==
    /\ f_pc = "return"
    /\ f_output.raw_response = <<"I","'","m"," ","n","o","t"," ","s","u","r","e",".","\n","F","i","n","a","l"," ","a","n","s","w","e","r",":"," ","B">>
    /\ f_output.is_correct /\ f_output.is_refusal

(***************************************************************************)
(* C25                                                                     *)
(***************************************************************************)
\* the patterns of the short-format cascade, by their place in the list, that
\* match somewhere in the text
MatchingPatterns(text) ==
    {j \in 1..Len(ShortPatterns) : Search(ShortPatterns[j], Strip(text)).ok}

\* the letter that the first match of pattern j captures, and where that
\* match starts
CapturedBy(j, text) == Search(ShortPatterns[j], Strip(text)).cap

StartsAt(j, text) == Search(ShortPatterns[j], Strip(text)).start

\* the positions of the line at which a letter of A-J is a word of its own
StandaloneLetters(line) ==
    {i \in 1..Len(line) :
        /\ line[i] \in LettersAJ
        /\ (i = 1 \/ line[i - 1] \notin WordChars)
        /\ (i = Len(line) \/ line[i + 1] \notin WordChars)}

\* the reverse scan of the last three lines: the first standalone letter of
\* the last of these lines that has one, or the empty string
ReverseScan(text) ==
    LET lines   == SplitLines(Strip(text))
        window  == {k \in 1..Len(lines) : k > Len(lines) - 3}
        lettered == {k \in window : StandaloneLetters(lines[k]) # {}}
    IN  IF lettered = {} THEN <<>>
        ELSE LET line == lines[SetMax(lettered)]
             IN  <<line[SetMin(StandaloneLetters(line))]>>

\* C25: parse_answer_mcq_short_format returns the letter captured by the
\* pattern that comes first in the list among those that match anywhere in
\* the text, wherever the others match; it returns what the reverse scan of
\* the last three lines gives only when none of the four patterns matches;
\* and it returns a letter of A-J or the empty string for every text
C25_CascadeOrderedByPattern ==
    f_pc = "short_returned" =>
        /\ f_output \in {<<>>} \cup {<<letter>> : letter \in LettersAJ}
        /\ MatchingPatterns(f_input) # {} =>
               f_output = CapturedBy(SetMin(MatchingPatterns(f_input)), f_input)
        /\ MatchingPatterns(f_input) = {} => f_output = ReverseScan(f_input)

\* 'Answer: A' and then 'The correct answer is (C)': the fourth pattern
\* matches at the start of the text, the first one in the second line, and
\* the parser returned C; the reverse scan would have found C as well, but
\* in 'Answer: A' and then 'Correct answer: E' and a line 'I think so.' the
\* third pattern wins over the fourth and over the I of the last line
C25_Witness ==
    /\ f_pc = "short_returned"
    /\ \/ /\ f_input = JoinLines(<<L_answer_A, L_short_C>>)
          /\ MatchingPatterns(f_input) = {1, 2, 4}
          /\ StartsAt(4, f_input) < StartsAt(1, f_input)
          /\ CapturedBy(4, f_input) = <<"A">>
          /\ f_output = <<"C">>
       \/ /\ f_input = JoinLines(<<L_answer_A, L_correct_E, L_I_think>>)
          /\ MatchingPatterns(f_input) = {3, 4}
          /\ StartsAt(4, f_input) < StartsAt(3, f_input)
          /\ ReverseScan(f_input) = <<"I">>
          /\ f_output = <<"E">>

(***************************************************************************)
(* scoring.py: score_raw_responses on the raw records of one condition,    *)
(* with a judge that is enabled or not and registered or not               *)
(***************************************************************************)
\* score_raw_responses: the scored rows, and the positions in the raw rows of
\* the records that judge_client.generate was called for, in call order; the
\* judge answers every call with reply
score_raw_responses(raw, questions, judge_config, judge_clients, reply) ==
    LET positions == [i \in 1..Len(raw) |-> i]
        found(i)  == LookupIndex(questions, raw[i].dataset, raw[i].question_id)
        kept      == SelectSeq(positions, LAMBDA i : found(i) # 0)
    IN  [scored_rows |->
             [k \in 1..Len(kept) |->
                 ScoredRow(raw[kept[k]], questions[found(kept[k])],
                           IsCorrect(raw[kept[k]], questions[found(kept[k])],
                                     judge_config, judge_clients, reply))],
         judge_calls |->
             SelectSeq(positions,
                       LAMBDA i : JudgeCalledFor(raw[i], questions, judge_config,
                                                 judge_clients))]

\* a multiple-choice question that carries the text of its correct option
\* next to the letter
Q4 == [dataset |-> "mmlu_pro", id |-> "4", correct_option_letter |-> <<"C">>,
       correct_answer_text |-> <<"C">>, subject |-> "law", difficulty |-> "hard"]

\* the questions that are loaded: all four, or two of them, so that the
\* records of the other two are skipped
ScoreQuestionLists == {<<Q1, Q2, Q3, Q4>>, <<Q3, Q1>>}

\* what is sampled: one question and completion, or two questions (the same
\* one or another) and their completions
SampledPairs ==
    {<<[question |-> q, text |-> text]>> :
        q \in {Q1, Q2, Q3, Q4}, text \in Completions}
    \cup {<<[question |-> q, text |-> T_final_B], [question |-> other, text |-> text]>> :
             q \in {Q1, Q2, Q3, Q4}, other \in {Q1, Q2, Q3, Q4}, text \in Completions}

\* the raw rows of a condition (sampling.py:227-260)
RawRowLists(condition) ==
    {[j \in 1..Len(sampled) |->
         SampleRow(sampled[j].question, condition, "m1", j - 1, sampled[j].text, j - 1)] :
        sampled \in SampledPairs}

\* the judge is model m2: enabled or not, with a client or without, and
\* calling every answer correct or every answer incorrect
ScoreInputs(condition) ==
    {[raw_rows |-> raw, questions |-> questions,
      judge |-> [enabled |-> enabled, judge_model_id |-> "m2"],
      judge_clients |-> judge_clients, reply |-> reply] :
        raw \in RawRowLists(condition), questions \in ScoreQuestionLists,
        enabled \in BOOLEAN, judge_clients \in {{"m1", "m2"}, {"m1"}},
        reply \in {S_correct, S_incorrect}}

InitScore ==
    /\ f_pc = "call" /\ f_condition \in SelectConditions
    /\ f_input \in ScoreInputs(f_condition)
    /\ f_output = <<>>
    /\ PipelineIdle /\ GenerateIdle /\ MetricsIdle

\* score_raw_responses(raw_rows, questions, judge_config, judge_clients)
\* returns
ScoreRawReturns ==
    /\ f_pc = "call"
    /\ f_output' = score_raw_responses(f_input.raw_rows, f_input.questions, f_input.judge,
                                       f_input.judge_clients, f_input.reply)
    /\ f_pc' = "return"
    /\ UNCHANGED <<f_input, f_condition, pipeline_vars, generate_vars, metrics_vars>>

NextScore == ScoreRawReturns

SpecScore == InitScore /\ [][NextScore]_vars

\* C26: a scored record of a question that has a correct option letter,
\* sampled under a condition whose type is not 'mcq', has an empty predicted
\* letter and is_correct = false, whatever the completion says and whether or
\* not a judge is enabled
C26_LetterQuestionUnderOpenConditionIsIncorrect ==
    f_pc = "return" =>
        \A k \in 1..Len(f_output.scored_rows) :
            LET r == f_output.scored_rows[k]
            IN  (Truthy(r.correct_option_letter) /\ f_condition.type # "mcq")
                    => (r.predicted_option_letter = <<>> /\ ~r.is_correct)

\* the question whose letter is b, sampled under an open condition that asks
\* for a final answer letter, with the completion '... Final answer: B' and a
\* judge at hand that calls every answer correct: scored incorrect
C26_Witness ==
    /\ f_pc = "return"
    /\ f_condition = Condition("c1", "open", "final_answer_letter")
    /\ f_input.judge.enabled /\ "m2" \in f_input.judge_clients
    /\ f_input.reply = S_correct
    /\ Len(f_output.scored_rows) = 1
    /\ f_output.scored_rows[1].correct_option_letter = <<"b">>
    /\ f_output.scored_rows[1].raw_response = T_final_B
    /\ f_output.scored_rows[1].predicted_answer_text = <<"B">>
    /\ f_output.scored_rows[1].predicted_option_letter = <<>>
    /\ ~f_output.scored_rows[1].is_correct

\* the question of a raw record: the last one of the list with its dataset
\* and id; 0 when there is none and the record is skipped
QuestionOf(row, questions) ==
    IF \E i \in 1..Len(questions) :
           questions[i].dataset = row.dataset /\ questions[i].id = row.question_id
    THEN CHOOSE i \in 1..Len(questions) :
             /\ questions[i].dataset = row.dataset /\ questions[i].id = row.question_id
             /\ \A j \in (i + 1)..Len(questions) :
                    ~(questions[j].dataset = row.dataset /\ questions[j].id = row.question_id)
    ELSE 0

\* the record is one the judge has to be asked about
ToBeJudged(row, input) ==
    LET i == QuestionOf(row, input.questions)
    IN  /\ i # 0
        /\ input.questions[i].correct_option_letter \in {None, <<>>}
        /\ input.questions[i].correct_answer_text # None
        /\ \E p \in 1..Len(row.predicted_answer_text) :
               row.predicted_answer_text[p] \notin SpaceChars
        /\ input.judge.enabled
        /\ input.judge.judge_model_id \in input.judge_clients

\* C27: during score_raw_responses the judge is called at most once for a raw
\* record, and it is called for a record exactly when the record is not
\* skipped, its question has no correct option letter and has a gold answer
\* text, its predicted answer text is not blank, judging is enabled and a
\* client is registered for the judge model id
C27_JudgeCalledOncePerOpenRecord ==
    f_pc = "return" =>
        /\ \A a, b \in 1..Len(f_output.judge_calls) :
               f_output.judge_calls[a] = f_output.judge_calls[b] => a = b
        /\ \A i \in 1..Len(f_input.raw_rows) :
               i \in Range(f_output.judge_calls) <=> ToBeJudged(f_input.raw_rows[i], f_input)

\* two records of the open question with a gold text: the judge was called
\* once for each; and next to a record it was called for, a record of a
\* question with a letter for which it was not
C27_Witness ==
    /\ f_pc = "return"
    /\ Len(f_input.raw_rows) = 2
    /\ \/ /\ f_input.raw_rows[1].question_id = "2" /\ f_input.raw_rows[2].question_id = "2"
          /\ f_output.judge_calls = <<1, 2>>
       \/ /\ f_input.raw_rows[1].question_id = "1" /\ f_input.raw_rows[1].dataset = "gpqa"
          /\ f_output.judge_calls = <<2>>

(***************************************************************************)
(* C28                                                                     *)
(***************************************************************************)
\* C28: in every summary row, 0 <= frac_questions_all_samples_correct <=
\* frac_questions_ge_23_correct <= frac_questions_ge_13_correct <= 1, and the
\* three fractions are equal when every question of the row's triple has at
\* most 13 samples
C28_RobustnessFractionsOrdered ==
    f_pc = "return" =>
        \A k \in 1..Len(f_output) :
            LET s == f_output[k]
            IN  /\ FracLeq(Zero, s.frac_questions_all_samples_correct)
                /\ FracLeq(s.frac_questions_all_samples_correct, s.frac_questions_ge_23_correct)
                /\ FracLeq(s.frac_questions_ge_23_correct, s.frac_questions_ge_13_correct)
                /\ FracLeq(s.frac_questions_ge_13_correct, One1)
                /\ (\A q \in QuestionsOf(s, f_input) : SamplesOf(s, f_input, q) <= 13)
                       => /\ s.frac_questions_ge_23_correct = s.frac_questions_all_samples_correct
                          /\ s.frac_questions_ge_13_correct = s.frac_questions_all_samples_correct

\* three questions of one triple: 1 of 1, 23 of 25 and 15 of 25 samples
\* correct; the fractions are 1/3, 2/3 and 1
C28_Witness ==
    /\ f_pc = "return"
    /\ Len(f_output) = 1
    /\ Cardinality(QuestionsOf(f_output[1], f_input)) = 3
    /\ SamplesOf(f_output[1], f_input, "1") = 25
    /\ CorrectOf(f_output[1], f_input, "1") = 15
    /\ f_output[1].frac_questions_all_samples_correct = <<1, 3>>
    /\ f_output[1].frac_questions_ge_23_correct = <<2, 3>>
    /\ f_output[1].frac_questions_ge_13_correct = <<1, 1>>

(***************************************************************************)
(* C29                                                                     *)
(***************************************************************************)
\* C29: compute_metrics returns exactly one summary row for every (dataset,
\* model id, condition id) triple of the input; the row's num_samples is the
\* number of input records of the triple and its num_questions the number of
\* distinct question ids among them; the num_samples of the rows add up to
\* the length of the input; and the rows are the same for every value of
\* num_samples_per_question
C29_RecordsConserved ==
    f_pc = "return" =>
        /\ {Triple(f_output[k]) : k \in 1..Len(f_output)}
               = {Triple(f_input[i]) : i \in 1..Len(f_input)}
        /\ \A j, k \in 1..Len(f_output) : Triple(f_output[j]) = Triple(f_output[k]) => j = k
        /\ \A k \in 1..Len(f_output) :
               /\ f_output[k].num_samples = Cardinality(RecordsOf(f_output[k], f_input))
               /\ f_output[k].num_questions = Cardinality(QuestionsOf(f_output[k], f_input))
        /\ SumOver(1..Len(f_output), [k \in 1..Len(f_output) |-> f_output[k].num_samples])
               = Len(f_input)
        /\ \A num_samples_per_question \in {0, 1} :
               f_output = compute_metrics(f_input, num_samples_per_question)

\* the records of two triples, three of one question under model m1 and one
\* under model m2: two rows with num_samples 3 and 1, each of one question
C29_Witness ==
    /\ f_pc = "return"
    /\ Len(f_input) = 4
    /\ Len(f_output) = 2
    /\ f_output[1].model_id = "m1" /\ f_output[1].num_samples = 3
    /\ f_output[2].model_id = "m2" /\ f_output[2].num_samples = 1
    /\ f_output[1].num_questions = 1 /\ f_output[2].num_questions = 1

(***************************************************************************)
(* runners.py: run_sampling_phase, interrupted and started again           *)
(***************************************************************************)
\* write_jsonl: open(path, "w") creates the file or empties it
\* (io_utils.py:66)
OpenRaw ==
    /\ pc = "sample_pair"
    /\ qi > Len(all_questions) \/ NumSamples = 0
    /\ files' = write_jsonl(files, RawPath(CurModel, CurCondition.id), <<>>)
    /\ pc' = "write_raw"
    /\ UNCHANGED <<exp_cfg, model_clients, all_questions, skip_sampling, skip_scoring,
                   skip_existing, run, mi, ci, qi, si, rows, raw_rows, ri, scored_rows,
                   all_scored_rows, summary_rows, script, sp, clock, files_at_start,
                   pair_calls, run_calls, judge_log, generate_vars, metrics_vars, call_vars>>

\* write_jsonl: one turn of its loop, the next row is written
\* (io_utils.py:67-68)
WriteRawRow ==
    /\ pc = "write_raw"
    /\ LET path    == RawPath(CurModel, CurCondition.id)
           written == read_jsonl(files, path)
       IN  /\ Len(written) < Len(rows)
           /\ files' = write_jsonl(files, path, Append(written, rows[Len(written) + 1]))
    /\ UNCHANGED <<exp_cfg, model_clients, all_questions, skip_sampling, skip_scoring,
                   skip_existing, run, pc, mi, ci, qi, si, rows, raw_rows, ri, scored_rows,
                   all_scored_rows, summary_rows, script, sp, clock, files_at_start,
                   pair_calls, run_calls, judge_log, generate_vars, metrics_vars, call_vars>>

\* write_jsonl returns: the loop is over and the file is closed; the sampling
\* phase goes on with the next condition (runners.py:122-134)
CloseRaw ==
    /\ pc = "write_raw"
    /\ Len(read_jsonl(files, RawPath(CurModel, CurCondition.id))) = Len(rows)
    /\ pc' = "sampling"
    /\ ci' = ci + 1
    /\ UNCHANGED <<exp_cfg, model_clients, all_questions, skip_sampling, skip_scoring,
                   skip_existing, run, mi, qi, si, rows, raw_rows, ri, scored_rows,
                   all_scored_rows, summary_rows, files, script, sp, clock, files_at_start,
                   pair_calls, run_calls, judge_log, generate_vars, metrics_vars, call_vars>>

\* the first run is interrupted from the keyboard within the sampling phase:
\* no statement of the package catches KeyboardInterrupt (write_jsonl catches
\* Exception, io_utils.py:69), so the process ends where it is; the with
\* statement closes the file with the rows written so far
Interrupt ==
    /\ run = "first"
    /\ pc \in {"sampling", "sample_pair", "write_raw"}
    /\ pc' = "interrupted"
    /\ UNCHANGED <<exp_cfg, model_clients, all_questions, skip_sampling, skip_scoring,
                   skip_existing, run, mi, ci, qi, si, rows, raw_rows, ri, scored_rows,
                   all_scored_rows, summary_rows, files, script, sp, clock, files_at_start,
                   pair_calls, run_calls, judge_log, generate_vars, metrics_vars, call_vars>>

\* the program is started again on the same output directory with the same
\* configuration, questions and clients, after an interruption or after the
\* sampling phase (the later phases write scored files and the summary only,
\* runners.py:202-207, and are left out here); --no-skip-existing is given or
\* not (cli.py:84, 180)
Restart ==
    /\ run = "first"
    /\ pc \in {"interrupted", "phase2"}
    /\ run' = "rerun"
    /\ pc' = "start"
    /\ skip_existing' \in BOOLEAN
    /\ UNCHANGED <<exp_cfg, model_clients, all_questions, skip_sampling, skip_scoring,
                   mi, ci, qi, si, rows, raw_rows, ri, scored_rows, all_scored_rows,
                   summary_rows, files, script, sp, clock, files_at_start, pair_calls,
                   run_calls, judge_log, generate_vars, metrics_vars, call_vars>>

\* the provider's answers in the runs that are interrupted
InterruptScripts == {<<T_final_B>>, <<T_short_C, T_empty>>}

\* a first run on an empty output directory, ids without an underscore
InitInterrupt ==
    /\ exp_cfg \in {cfg \in Configs : cfg.models = ConfigPlain.models /\ ~cfg.judge.enabled}
    /\ model_clients \in ClientSets(exp_cfg)
    /\ all_questions \in QuestionLists
    /\ script \in InterruptScripts
    /\ skip_sampling = FALSE /\ skip_scoring = FALSE /\ skip_existing \in BOOLEAN
    /\ run = "first" /\ pc = "start"
    /\ mi = 1 /\ ci = 1 /\ qi = 1 /\ si = 0 /\ ri = 1
    /\ rows = <<>> /\ raw_rows = <<>> /\ scored_rows = <<>>
    /\ all_scored_rows = <<>> /\ summary_rows = <<>>
    /\ files = <<>> /\ files_at_start = <<>>
    /\ sp = 1 /\ clock = 0
    /\ pair_calls = <<>> /\ run_calls = <<>> /\ judge_log = <<>>
    /\ GenerateIdle
    /\ MetricsIdle
    /\ CallIdle

NextInterrupt ==
    \/ StartRun
    \/ SamplingLoop
    \/ SampleCall
    \/ OpenRaw
    \/ WriteRawRow
    \/ CloseRaw
    \/ Interrupt
    \/ Restart

SpecInterrupt == InitInterrupt /\ [][NextInterrupt]_vars

\* the composite keys of the records of a pair, in the order of the loops
\* (sampling.py:213-216)
RecordsOfPair(model_id, condition) ==
    [k \in 1..(Len(all_questions) * NumSamples) |->
        CallOf(all_questions[((k - 1) \div NumSamples) + 1], condition, model_id,
               (k - 1) % NumSamples)]

\* a raw file that holds the records of the pair, all of them
IsComplete(rws, model_id, condition) ==
    [i \in 1..Len(rws) |-> CompositeKey(rws[i])] = RecordsOfPair(model_id, condition)

\* the sampling phase is at a pair it skips because of its raw file
AboutToSkip ==
    /\ pc = "sampling"
    /\ mi <= Len(exp_cfg.models) /\ ci <= Len(exp_cfg.conditions)
    /\ CurModel \in model_clients
    /\ SkipExisting(skip_existing, files, RawPath(CurModel, CurCondition.id))

(***************************************************************************)
(* C30                                                                     *)
(***************************************************************************)
\* C30: the raw file of a pair does not exist while generate calls of the
\* pair are outstanding unless an earlier run left it, and in every state,
\* also after an interruption, a raw file that skip-existing skips holds all
\* the records of its pair
C30_SkippedRawFileIsComplete ==
    /\ pc = "sample_pair" /\ Len(pair_calls) < Len(all_questions) * NumSamples
           => \/ ~Exists(files, RawPath(CurModel, CurCondition.id))
              \/ Exists(files_at_start, RawPath(CurModel, CurCondition.id))
    /\ AboutToSkip
           => IsComplete(read_jsonl(files, RawPath(CurModel, CurCondition.id)),
                         CurModel, CurCondition)

\* the raw file of the pair being sampled, when this run made it, was opened
\* after the last generate call of the pair returned
C30_FileOpenedAfterAllCalls ==
    /\ pc \in {"sample_pair", "write_raw"}
    /\ Exists(files, RawPath(CurModel, CurCondition.id))
    /\ ~Exists(files_at_start, RawPath(CurModel, CurCondition.id))
    => /\ pc = "write_raw"
       /\ pair_calls = RecordsOfPair(CurModel, CurCondition)

\* a pair is skipped because of a raw file that holds some of its records
C30_SkipsPartialFile ==
    /\ AboutToSkip
    /\ Len(read_jsonl(files, RawPath(CurModel, CurCondition.id))) \in
           1..(Len(all_questions) * NumSamples - 1)

============================================================================
